---------------------------- MODULE Spec2Model ----------------------------
(***************************************************************************)
(* Model of the jq255e signature / key-exchange library (jq255.c, the      *)
(* default JQ == JQ255E build).                                            *)
(*                                                                         *)
(* Scale.  TLC has 32-bit integers, so every width of the code is divided  *)
(* by 32: a field element is an 8-bit value (256 bits in the code), the    *)
(* field is GF(2^7 - MQ) (2^255 - MQ in the code), the group order is      *)
(* r = 2^6 - R0 (2^254 - R0), and a "byte" holds 4 bits, so that an        *)
(* encoded key has KEY_LEN = 2 bytes (32), a challenge 1 byte (16) and a   *)
(* signature 3 bytes (48).  The curve equation, the point formulas, the    *)
(* digit schedules and the control flow of the scheme layer are the        *)
(* code's.  The curve e^2 = 8*u^4 + 1 over GF(101) is, like jq255e, a      *)
(* double-odd curve with a = 0, b = -2, q = 5 mod 8, base point            *)
(* (e, u) = (3, 1) and a prime group order r = 61.                         *)
(*                                                                         *)
(* The scheme layer works on field elements modelled by the residue the    *)
(* limbs represent; the limb-level functions of the 64-bit implementation  *)
(* are modelled on their own, in the second part of section 1.             *)
(***************************************************************************)
EXTENDS Integers, Sequences, FiniteSets, TLC

(***************************************************************************)
(* SECTION 1: FIELD ELEMENTS                                               *)
(***************************************************************************)
MQ == 27
Q == 128 - MQ

\* A uint32_t mask is 0x00000000 or 0xFFFFFFFF; a 32-bit word is written as
\* the int32 with the same bits, so 0xFFFFFFFF is -1.
MASK_ONES == -1
MaskAnd(a, b) == IF a = MASK_ONES /\ b = MASK_ONES THEN MASK_ONES ELSE 0
MaskNot(a) == (-1) - a
\* (int)(x) of a 32-bit sum: wrap-around modulo 2^32, read as int32
Wrap32(x) == IF x > 2147483647 THEN x - 2147483647 - 2147483647 - 2
             ELSE IF x < (-2147483647) - 1 THEN x + 2147483647 + 2147483647 + 2
             ELSE x

\* TLC computes definitions and arguments on demand; Evaluated(v) is TRUE
\* and makes TLC compute v at this place, so that no long chain of pending
\* computations builds up on its evaluation stack.
Evaluated(v) == v = v

gf_zero == 0
gf_one == 1
gf_minus_one == Q - 1

gf_add(a, b) == (a + b) % Q
gf_sub(a, b) == (a - b) % Q
gf_neg(a) == (Q - a) % Q
gf_select(a0, a1, ctl) == IF ctl = MASK_ONES THEN a1 ELSE a0
gf_condneg(a, ctl) == gf_select(a, gf_neg(a), ctl)
gf_mul2(a) == (2 * a) % Q
gf_lsh(a, n) == (a * (2 ^ n)) % Q
gf_half(a) == IF a % 2 = 0 THEN a \div 2 ELSE (a + Q) \div 2
gf_mul(a, b) == (a * b) % Q
gf_square(a) == (a * a) % Q

RECURSIVE gf_xsquare(_, _)
gf_xsquare(a, n) == IF n = 0 THEN a ELSE gf_xsquare(gf_square(a), n - 1)

gf_is_zero(a) == IF a % Q = 0 THEN MASK_ONES ELSE 0
gf_equals(a, b) == gf_is_zero(gf_sub(a, b))
gf_normalize(a) == a % Q
gf_is_negative(x) == IF gf_normalize(x) % 2 = 1 THEN MASK_ONES ELSE 0

\* Byte strings are sequences of bytes, least significant first.
Byte == 0 .. 15
KEY_LEN == 2
RECURSIVE DecLE(_)
DecLE(buf) == IF buf = << >> THEN 0 ELSE Head(buf) + 16 * DecLE(Tail(buf))
RECURSIVE EncLE(_, _)
EncLE(x, n) == IF n = 0 THEN << >> ELSE << x % 16 >> \o EncLE(x \div 16, n - 1)
ZeroBytes(n) == [i \in 1 .. n |-> 0]

\* gf_decode: <<mask, value>>; the value is zeroed when it is not below q
gf_decode(src) ==
    LET d == DecLE(src)
        t == IF d < Q THEN MASK_ONES ELSE 0
    IN  << t, IF t = MASK_ONES THEN d ELSE 0 >>
gf_encode(a) == EncLE(gf_normalize(a), KEY_LEN)

\* square-and-multiply; the code's addition chains compute the same power
RECURSIVE GfPow(_, _)
GfPow(a, e) == IF e = 0 THEN 1
               ELSE IF e % 2 = 1 THEN gf_mul(a, GfPow(gf_square(a), e \div 2))
               ELSE GfPow(gf_square(a), e \div 2)

gf_inv(a) == GfPow(a, Q - 2)

\* a square root that does not choose the non-negative root
gf_sqrt_any_root(a) ==
    LET b == GfPow(gf_mul2(a), (Q - 5) \div 8)
        y == gf_mul(b, a)
        c == gf_mul2(gf_mul(y, b))
        x == gf_mul(y, gf_sub(c, gf_one))
        r == gf_equals(gf_square(x), a)
    IN  << r, gf_select(gf_zero, x, r) >>

\* gf_sqrt, (MQ & 7) == 3 branch (q = 5 mod 8, Atkin): <<mask, root>>
gf_sqrt(a) ==
    LET b == GfPow(gf_mul2(a), (Q - 5) \div 8)
        y == gf_mul(b, a)
        c == gf_mul2(gf_mul(y, b))
        x0 == gf_mul(y, gf_sub(c, gf_one))
        x == gf_condneg(x0, gf_is_negative(x0))
        r == gf_equals(gf_square(x), a)
    IN  << r, gf_select(gf_zero, x, r) >>

(***************************************************************************)
(* SECTION 1, LIMB LEVEL: THE 64-BIT IMPLEMENTATION                        *)
(*                                                                         *)
(* The field functions of the 64-bit implementation, limb by limb.  A      *)
(* field element is the tuple << v0, v1, v2, v3 >> of its four limbs and   *)
(* may hold any value of the full range.  The code relies on 2*MQ, and on  *)
(* the products of MQ with the words folded back, being far below the size *)
(* of a limb.  A limb of 2 bits cannot keep that, so this section has a    *)
(* scale of its own: a limb has 6 bits (64 in the code), an element 24     *)
(* bits (256), a byte 3 bits (8), so that a limb is 2 bytes (8) and an     *)
(* encoded element 8 bytes (32).  The modulus is 2^23 - MQL with MQL = 3,  *)
(* odd and not 7 mod 8 as the code requires of MQ.  It is not a prime:     *)
(* none of the functions of this section needs one.                        *)
(***************************************************************************)
LIMB == 64
MQL == 3
\* the modulus, and the number of values of four limbs
QL == LIMB * LIMB * LIMB * (LIMB \div 2) - MQL
FULL == LIMB * LIMB * LIMB * LIMB

\* adc and sbb: << carry or borrow out, limb written >>
adc(cc, a, b) == << (a + b + cc) \div LIMB, (a + b + cc) % LIMB >>
sbb(cc, a, b) == << IF a - b - cc < 0 THEN 1 ELSE 0, (a - b - cc) % LIMB >>
\* UMUL: << lo, hi >>
UMUL(x, y) == << (x * y) % LIMB, (x * y) \div LIMB >>

\* In what follows -(uint64_t)cc & x, for cc in {0, 1}, is written cc * x,
\* x >> 63 is x \div (LIMB \div 2), and -(uint64_t)x is LIMB - x.

\* an addition that folds the carry once only
gf_add_w64_one_fold(a, b) ==
    LET c0 == adc(0, a[1], b[1])
        c1 == adc(c0[1], a[2], b[2])
        c2 == adc(c1[1], a[3], b[3])
        c3 == adc(c2[1], a[4], b[4])
        f0 == adc(0, c0[2], c3[1] * (2 * MQL))
        f1 == adc(f0[1], c1[2], 0)
        f2 == adc(f1[1], c2[2], 0)
        f3 == adc(f2[1], c3[2], 0)
    IN  << f0[2], f1[2], f2[2], f3[2] >>

gf_add_w64(a, b) ==
    LET c0 == adc(0, a[1], b[1])
        c1 == adc(c0[1], a[2], b[2])
        c2 == adc(c1[1], a[3], b[3])
        c3 == adc(c2[1], a[4], b[4])
        f0 == adc(0, c0[2], c3[1] * (2 * MQL))
        f1 == adc(f0[1], c1[2], 0)
        f2 == adc(f1[1], c2[2], 0)
        f3 == adc(f2[1], c3[2], 0)
        g0 == adc(0, f0[2], f3[1] * (2 * MQL))
    IN  << g0[2], f1[2], f2[2], f3[2] >>

gf_sub_w64(a, b) ==
    LET c0 == sbb(0, a[1], b[1])
        c1 == sbb(c0[1], a[2], b[2])
        c2 == sbb(c1[1], a[3], b[3])
        c3 == sbb(c2[1], a[4], b[4])
        f0 == sbb(0, c0[2], c3[1] * (2 * MQL))
        f1 == sbb(f0[1], c1[2], 0)
        f2 == sbb(f1[1], c2[2], 0)
        f3 == sbb(f2[1], c3[2], 0)
        g0 == sbb(0, f0[2], f3[1] * (2 * MQL))
    IN  << g0[2], f1[2], f2[2], f3[2] >>

\* on borrow e is all ones: the limbs MQ, e, e, e >> 1 are subtracted
gf_neg_w64(a) ==
    LET c0 == sbb(0, LIMB - 2 * MQL, a[1])
        c1 == sbb(c0[1], LIMB - 1, a[2])
        c2 == sbb(c1[1], LIMB - 1, a[3])
        c3 == sbb(c2[1], LIMB - 1, a[4])
        f0 == sbb(0, c0[2], c3[1] * MQL)
        f1 == sbb(f0[1], c1[2], c3[1] * (LIMB - 1))
        f2 == sbb(f1[1], c2[2], c3[1] * (LIMB - 1))
        f3 == sbb(f2[1], c3[2], c3[1] * (LIMB \div 2 - 1))
    IN  << f0[2], f1[2], f2[2], f3[2] >>

gf_mul2_w64(a) ==
    LET d0 == (2 * a[1]) % LIMB
        d1 == ((2 * a[2]) % LIMB) + a[1] \div (LIMB \div 2)
        d2 == ((2 * a[3]) % LIMB) + a[2] \div (LIMB \div 2)
        d3 == ((2 * a[4]) % LIMB) + a[3] \div (LIMB \div 2)
        f0 == adc(0, d0, (a[4] \div (LIMB \div 2)) * (2 * MQL))
        f1 == adc(f0[1], d1, 0)
        f2 == adc(f1[1], d2, 0)
        f3 == adc(f2[1], d3, 0)
        g0 == adc(0, f0[2], f3[1] * (2 * MQL))
    IN  << g0[2], f1[2], f2[2], f3[2] >>

\* d <- a * 2^n, for n up to LSH_MAX - 1: in the code n < 47, which keeps
\* d4 * (2 * MQ) within a limb
gf_lsh_w64(a, n) ==
    LET d0 == (a[1] * (2 ^ n)) % LIMB
        d1 == ((a[2] * (2 ^ n)) % LIMB) + a[1] \div (LIMB \div (2 ^ n))
        d2 == ((a[3] * (2 ^ n)) % LIMB) + a[2] \div (LIMB \div (2 ^ n))
        d3 == ((a[4] * (2 ^ n)) % LIMB) + a[3] \div (LIMB \div (2 ^ n))
        d4 == a[4] \div (LIMB \div (2 ^ n))
        f0 == adc(0, d0, d4 * (2 * MQL))
        f1 == adc(f0[1], d1, 0)
        f2 == adc(f1[1], d2, 0)
        f3 == adc(f2[1], d3, 0)
        g0 == adc(f3[1], f0[2], f3[1] * (2 * MQL))
    IN  << g0[2], f1[2], f2[2], f3[2] >>

\* m is all ones when the dropped bit is 1; the limbs added are then
\* -(MQ >> 1), m, m, m >> 2, which is (q + 1) / 2
gf_half_w64(a) ==
    LET m == a[1] % 2
        c0 == adc(0, a[1] \div 2 + (a[2] % 2) * (LIMB \div 2),
                  m * (LIMB - MQL \div 2))
        c1 == adc(c0[1], a[2] \div 2 + (a[3] % 2) * (LIMB \div 2),
                  m * (LIMB - 1))
        c2 == adc(c1[1], a[3] \div 2 + (a[4] % 2) * (LIMB \div 2),
                  m * (LIMB - 1))
        c3 == adc(c2[1], a[4] \div 2, m * (LIMB \div 4 - 1))
    IN  << c0[2], c1[2], c2[2], c3[2] >>

\* A run of adc over the words e[i], e[i+1], ... of an array of words, the
\* words of x added in, the first carry being cc; the carry out of the last
\* adc is dropped, as the code does with "(void)adc(...)".
RECURSIVE adc_run(_, _, _, _)
adc_run(e, i, x, cc) ==
    CASE Evaluated(e) ->
        IF x = << >> THEN e
        ELSE LET t == adc(cc, e[i], Head(x))
             IN  adc_run([e EXCEPT ![i] = t[2]], i + 1, Tail(x), t[1])

\* the product over the integers, e0 .. e7, as gf_mul computes it
gf_mul_product(a, b) ==
    LET diag == UMUL(a[1], b[1]) \o UMUL(a[2], b[2])
                   \o UMUL(a[3], b[3]) \o UMUL(a[4], b[4])
        s1 == adc_run(diag, 2, UMUL(a[1], b[2]) \o UMUL(a[1], b[4])
                                  \o UMUL(a[3], b[4]) \o << 0 >>, 0)
        s2 == adc_run(s1, 2, UMUL(a[2], b[1]) \o UMUL(a[4], b[1])
                                \o UMUL(a[4], b[3]) \o << 0 >>, 0)
        s3 == adc_run(s2, 3, UMUL(a[1], b[3]) \o UMUL(a[2], b[4])
                                \o << 0, 0 >>, 0)
        s4 == adc_run(s3, 3, UMUL(a[3], b[1]) \o UMUL(a[4], b[2])
                                \o << 0, 0 >>, 0)
        x == UMUL(a[2], b[3])
        y == UMUL(a[3], b[2])
        lo == adc(0, x[1], y[1])
        hi == adc(lo[1], x[2], y[2])
        hi2 == adc(hi[1], 0, 0)
    IN  adc_run(s4, 4, << lo[2], hi[2], hi2[2], 0, 0 >>, 0)

\* the product over the integers, e0 .. e7, as gf_square computes it
gf_square_product(a) ==
    LET cross == << 0 >> \o UMUL(a[1], a[2]) \o UMUL(a[1], a[4])
                    \o UMUL(a[3], a[4]) \o << 0 >>
        s1 == adc_run(cross, 3, UMUL(a[1], a[3]) \o UMUL(a[2], a[4])
                                   \o << 0 >>, 0)
        s2 == adc_run(s1, 4, UMUL(a[2], a[3]) \o << 0, 0 >>, 0)
        dbl == [i \in 1 .. 8 |->
                   IF i = 1 THEN UMUL(a[1], a[1])[1]
                   ELSE ((2 * s2[i]) % LIMB)
                        + (IF i = 2 THEN 0 ELSE s2[i - 1] \div (LIMB \div 2))]
    IN  adc_run(dbl, 2, << UMUL(a[1], a[1])[2] >> \o UMUL(a[2], a[2])
                           \o UMUL(a[3], a[3]) \o UMUL(a[4], a[4]), 0)

\* the second pass of the reduction: the top bit of e3 and the word h3 are
\* folded as h3 * MQ into e0, and h0, h1, h2 added to e1, e2, e3
gf_mul_fold(r, h0, h1, h2) ==
    CASE Evaluated(r) ->
        LET h3 == ((2 * r[5]) % LIMB) + r[4] \div (LIMB \div 2)
        IN  adc_run(<< r[1], r[2], r[3], r[4] % (LIMB \div 2) >>, 1,
                    << (h3 * MQL) % LIMB, h0, h1, h2 >>, 0)

\* the reduction of e0 .. e7, which gf_mul and gf_square both end with: the
\* first pass adds the low words of e4 .. e7 times 2*MQ to e0 .. e3, the
\* carry going into h3
gf_mul_reduce(e) ==
    CASE Evaluated(e) ->
        gf_mul_fold(adc_run(<< e[1], e[2], e[3], e[4], UMUL(e[8], 2 * MQL)[2] >>, 1,
                            << UMUL(e[5], 2 * MQL)[1], UMUL(e[6], 2 * MQL)[1],
                               UMUL(e[7], 2 * MQL)[1], UMUL(e[8], 2 * MQL)[1], 0 >>, 0),
                    UMUL(e[5], 2 * MQL)[2], UMUL(e[6], 2 * MQL)[2],
                    UMUL(e[7], 2 * MQL)[2])

gf_mul_w64(a, b) == gf_mul_reduce(gf_mul_product(a, b))
gf_square_w64(a) == gf_mul_reduce(gf_square_product(a))

\* a normalisation without the fold of the top bit
gf_normalize_w64_unfolded(a) ==
    LET s0 == sbb(0, a[1], LIMB - MQL)
        s1 == sbb(s0[1], a[2], LIMB - 1)
        s2 == sbb(s1[1], a[3], LIMB - 1)
        s3 == sbb(s2[1], a[4], LIMB \div 2 - 1)
        n0 == adc(0, s0[2], s3[1] * (LIMB - MQL))
        n1 == adc(n0[1], s1[2], s3[1] * (LIMB - 1))
        n2 == adc(n1[1], s2[2], s3[1] * (LIMB - 1))
        n3 == adc(n2[1], s3[2], s3[1] * (LIMB \div 2 - 1))
    IN  << n0[2], n1[2], n2[2], n3[2] >>

gf_normalize_w64(a) ==
    LET t == a[4] \div (LIMB \div 2)
        c0 == adc(0, a[1], t * MQL)
        c1 == adc(c0[1], a[2], 0)
        c2 == adc(c1[1], a[3], 0)
        c3 == adc(c2[1], a[4], t * (LIMB \div 2))
        s0 == sbb(0, c0[2], LIMB - MQL)
        s1 == sbb(s0[1], c1[2], LIMB - 1)
        s2 == sbb(s1[1], c2[2], LIMB - 1)
        s3 == sbb(s2[1], c3[2], LIMB \div 2 - 1)
        n0 == adc(0, s0[2], s3[1] * (LIMB - MQL))
        n1 == adc(n0[1], s1[2], s3[1] * (LIMB - 1))
        n2 == adc(n1[1], s2[2], s3[1] * (LIMB - 1))
        n3 == adc(n2[1], s3[2], s3[1] * (LIMB \div 2 - 1))
    IN  << n0[2], n1[2], n2[2], n3[2] >>

\* a limb is two bytes of 3 bits, the least significant first
dec64le(buf) == buf[1] + 8 * buf[2]
enc64le(x) == << x % 8, x \div 8 >>

\* a decoder that compares with 2^255 instead of q
gf_decode_w64_top_bit(src) ==
    LET d3 == dec64le(SubSeq(src, 7, 8))
    IN  IF d3 \div (LIMB \div 2) = 0
        THEN << MASK_ONES, << dec64le(SubSeq(src, 1, 2)), dec64le(SubSeq(src, 3, 4)),
                              dec64le(SubSeq(src, 5, 6)), d3 >> >>
        ELSE << 0, << 0, 0, 0, 0 >> >>

\* gf_decode: << mask, element >>; t is all ones when subtracting q borrows
gf_decode_w64(src) ==
    LET d0 == dec64le(SubSeq(src, 1, 2))
        d1 == dec64le(SubSeq(src, 3, 4))
        d2 == dec64le(SubSeq(src, 5, 6))
        d3 == dec64le(SubSeq(src, 7, 8))
        s0 == sbb(0, d0, LIMB - MQL)
        s1 == sbb(s0[1], d1, LIMB - 1)
        s2 == sbb(s1[1], d2, LIMB - 1)
        s3 == sbb(s2[1], d3, LIMB \div 2 - 1)
    IN  << IF s3[1] = 1 THEN MASK_ONES ELSE 0,
           << s3[1] * d0, s3[1] * d1, s3[1] * d2, s3[1] * d3 >> >>

gf_encode_w64(a) ==
    LET x == gf_normalize_w64(a)
    IN  enc64le(x[1]) \o enc64le(x[2]) \o enc64le(x[3]) \o enc64le(x[4])

(***************************************************************************)
(* SECTION 3: CURVE                                                        *)
(***************************************************************************)
\* a point is <<E, Z, U, T>>; an affine point is <<E, U, T>>
point_neutral == << 1, 1, 0, 0 >>
point_affine_neutral == << 1, 0, 0 >>

\* point_decode: <<mask, point>>
point_decode(src) ==
    LET du == gf_decode(src)
        u == du[2]
        uu == gf_square(u)
        ee == gf_add(gf_lsh(gf_square(uu), 3), gf_one)
        se == gf_sqrt(ee)
        r == MaskAnd(du[1], se[1])
    IN  << r, << gf_select(gf_minus_one, se[2], r), gf_one,
                 gf_select(gf_zero, u, r), gf_select(gf_zero, uu, r) >> >>

\* an encoder that writes u whatever the sign of e
point_encode_unsigned(p) ==
    LET iZ == gf_inv(p[2])
    IN  gf_encode(gf_mul(p[3], iZ))

point_encode(p) ==
    LET iZ == gf_inv(p[2])
        e == gf_mul(p[1], iZ)
        u == gf_mul(p[3], iZ)
    IN  gf_encode(gf_condneg(u, gf_is_negative(e)))

point_add(p1, p2) ==
    LET e1e2 == gf_mul(p1[1], p2[1])
        u1u2 == gf_mul(p1[3], p2[3])
        z1z2 == gf_mul(p1[2], p2[2])
        t1t2 == gf_mul(p1[4], p2[4])
        eu == gf_sub(gf_mul(gf_add(p1[1], p1[3]), gf_add(p2[1], p2[3])),
                     gf_add(e1e2, u1u2))
        zt == gf_sub(gf_mul(gf_add(p1[2], p1[4]), gf_add(p2[2], p2[4])),
                     gf_add(z1z2, t1t2))
        g1 == gf_lsh(t1t2, 3)
        hd == gf_sub(z1z2, g1)
        E3 == gf_add(gf_mul(gf_add(z1z2, g1), e1e2),
                     gf_mul(gf_lsh(u1u2, 4), zt))
        Z3 == gf_square(hd)
        T3 == gf_square(eu)
        U3 == gf_half(gf_sub(gf_square(gf_add(hd, eu)), gf_add(Z3, T3)))
    IN  << E3, Z3, U3, T3 >>

point_add_affine(p1, p2) ==
    LET e1e2 == gf_mul(p1[1], p2[1])
        u1u2 == gf_mul(p1[3], p2[2])
        t1t2 == gf_mul(p1[4], p2[3])
        eu == gf_sub(gf_mul(gf_add(p1[1], p1[3]), gf_add(p2[1], p2[2])),
                     gf_add(e1e2, u1u2))
        zt == gf_add(gf_mul(p1[2], p2[3]), p1[4])
        g1 == gf_lsh(t1t2, 3)
        hd == gf_sub(p1[2], g1)
        E3 == gf_add(gf_mul(gf_add(p1[2], g1), e1e2),
                     gf_mul(gf_lsh(u1u2, 4), zt))
        Z3 == gf_square(hd)
        T3 == gf_square(eu)
        U3 == gf_half(gf_sub(gf_square(gf_add(hd, eu)), gf_add(Z3, T3)))
    IN  << E3, Z3, U3, T3 >>

point_neg(p1) == << p1[1], p1[2], gf_neg(p1[3]), p1[4] >>
point_sub(p1, p2) == point_add(p1, point_neg(p2))
point_sub_affine(p1, p2) ==
    point_add_affine(p1, << p2[1], gf_neg(p2[2]), p2[3] >>)

\* one extra doubling in (X:W:J) coordinates
XwjDouble(xwj) ==
    LET X == xwj[1]
        W == xwj[2]
        J == xwj[3]
        ww == gf_square(W)
        t1 == gf_sub(ww, gf_mul2(X))
        t2 == gf_square(t1)
    IN  << gf_square(t2),
           gf_sub(t2, gf_mul2(gf_square(ww))),
           gf_mul(J, gf_mul2(gf_mul(t1, W))) >>

\* n extra doublings, one after the other; the count is halved to keep the
\* evaluation shallow
RECURSIVE XwjIter(_, _)
XwjIter(xwj, n) ==
    CASE Evaluated(xwj) ->
        IF n = 0 THEN xwj
        ELSE IF n = 1 THEN XwjDouble(xwj)
        ELSE XwjIter(XwjIter(xwj, n \div 2), n - (n \div 2))

\* back from (X:W:J) to (E:Z:U:T)
XwjFinish(xwj) ==
    LET Z == gf_square(xwj[2])
    IN  << gf_sub(gf_mul2(xwj[1]), Z), Z,
           gf_mul(xwj[2], xwj[3]), gf_square(xwj[3]) >>

point_xdouble(p, n) ==
    IF n = 0 THEN p
    ELSE LET g1 == gf_square(p[1])
             first == << gf_square(g1),
                         gf_sub(gf_mul2(gf_square(p[2])), g1),
                         gf_mul2(gf_mul(p[1], p[3])) >>
         IN  XwjFinish(XwjIter(first, n - 1))

point_double(p) == point_xdouble(p, 1)
\* a test of the wrong coordinate
\* ---- jq255s: the same code built with JQ == JQ255S ----
\* The field is GF(2^7 - 61), and the curve e^2 = -u^4 + 2u^2 + 1 has a
\* group of 29 elements.
MQS == 61
QS == 128 - MQS

gf_add_s(a, b) == (a + b) % QS
gf_sub_s(a, b) == (a - b) % QS
gf_mul2_s(a) == (2 * a) % QS
gf_lsh_s(a, n) == (a * (2 ^ n)) % QS
gf_half_s(a) == IF a % 2 = 0 THEN a \div 2 ELSE (a + QS) \div 2
gf_mul_s(a, b) == (a * b) % QS
gf_square_s(a) == (a * a) % QS

\* point_add, jq255s branch: a' = 2, b' = -1
point_add_s(p1, p2) ==
    LET e1e2 == gf_mul_s(p1[1], p2[1])
        u1u2 == gf_mul_s(p1[3], p2[3])
        z1z2 == gf_mul_s(p1[2], p2[2])
        t1t2 == gf_mul_s(p1[4], p2[4])
        eu == gf_sub_s(gf_mul_s(gf_add_s(p1[1], p1[3]), gf_add_s(p2[1], p2[3])),
                       gf_add_s(e1e2, u1u2))
        zt == gf_sub_s(gf_mul_s(gf_add_s(p1[2], p1[4]), gf_add_s(p2[2], p2[4])),
                       gf_add_s(z1z2, t1t2))
        hd == gf_add_s(z1z2, t1t2)
        g1 == gf_sub_s(z1z2, t1t2)
        g2 == gf_mul2_s(u1u2)
        g3 == gf_add_s(e1e2, g2)
        E3 == gf_sub_s(gf_mul_s(g3, g1), gf_mul_s(g2, zt))
        Z3 == gf_square_s(hd)
        T3 == gf_square_s(eu)
        U3 == gf_half_s(gf_sub_s(gf_square_s(gf_add_s(hd, eu)), gf_add_s(Z3, T3)))
    IN  << E3, Z3, U3, T3 >>

\* point_xdouble, jq255s branch, first doubling: (E:Z:U:T) to (X:W:J)
xdouble_first_s(p) ==
    LET g1 == gf_square_s(p[3])
        J == gf_mul2_s(gf_mul_s(p[1], p[3]))
        X == gf_lsh_s(gf_square_s(g1), 3)
        g2 == gf_add_s(p[4], p[2])
        W == gf_sub_s(gf_mul2_s(g1), gf_square_s(g2))
    IN  << X, W, J >>

\* the same step with the square of g1 taken before J is completed
xdouble_extra_s_early(xwj) ==
    LET X == xwj[1]
        W == xwj[2]
        J == xwj[3]
        g1 == gf_mul_s(W, J)
        g3a == gf_add_s(W, J)
        g2a == gf_mul2_s(g1)
        g3b == gf_square_s(g3a)
        Ja == gf_mul2_s(X)
        g3c == gf_sub_s(g3b, g2a)
        g2b == gf_square_s(g1)
        Jb == gf_sub_s(Ja, g2b)
        Jc == gf_mul_s(Jb, g1)
        g3d == gf_square_s(g3c)
        Xa == gf_square_s(g2b)
        g3e == gf_half_s(g3d)
        Xb == gf_mul2_s(Xa)
        Wa == gf_sub_s(g2b, g3e)
    IN  << Xb, Wa, Jc >>

\* point_xdouble, jq255s branch, one turn of the loop of extra doublings:
\* each line is one call of the code, on the registers g1, g2, g3, X, W, J
xdouble_extra_s(xwj) ==
    LET X == xwj[1]
        W == xwj[2]
        J == xwj[3]
        g1 == gf_mul_s(W, J)
        g3a == gf_add_s(W, J)
        g2a == gf_mul2_s(g1)
        g3b == gf_square_s(g3a)
        Ja == gf_mul2_s(X)
        g3c == gf_sub_s(g3b, g2a)
        Jb == gf_sub_s(Ja, g3c)
        g2b == gf_square_s(g1)
        Jc == gf_mul_s(Jb, g1)
        g3d == gf_square_s(g3c)
        Xa == gf_square_s(g2b)
        g3e == gf_half_s(g3d)
        Xb == gf_mul2_s(Xa)
        Wa == gf_sub_s(g2b, g3e)
    IN  << Xb, Wa, Jc >>

\* point_xdouble, jq255s branch, the conversion back to (E:Z:U:T)
xdouble_finish_s(xwj) ==
    LET Z == gf_square_s(xwj[2])
        T == gf_square_s(xwj[3])
        U == gf_mul_s(xwj[2], xwj[3])
        g1 == gf_sub_s(gf_mul2_s(xwj[1]), Z)
    IN  << gf_sub_s(g1, T), Z, U, T >>

point_is_neutral_E(p) == gf_is_zero(p[1])
point_is_neutral(p) == gf_is_zero(p[3])
point_select(p0, p1, ctl) == IF ctl = MASK_ONES THEN p1 ELSE p0

(***************************************************************************)
(* SECTION 2: SCALARS                                                      *)
(***************************************************************************)
R0 == 3
R == 64 - R0
\* (r-1)/2
HR == (R - 1) \div 2

modr_is_reduced(a) == IF a < R THEN MASK_ONES ELSE 0
\* Input a < 2*r, output a < r
modr_inner_reduce(a) == IF modr_is_reduced(a) = MASK_ONES THEN a ELSE a - R

\* r = 2^6 - r0: the bits from bit 6 up (and the extra limb ah) are wrapped
modr_reduce256_partial(a, ah) ==
    LET h == ah * 4 + (a \div 64)
    IN  h * R0 + (a % 64)
modr_reduce256_finish(a) == modr_inner_reduce(a)
\* a is a 12-limb value: t <- r0*floor(a/2^8); t <- 4*t + (a mod 2^8)
modr_reduce384_partial(a) ==
    LET t == R0 * (a \div 256)
        w == 4 * t + (a % 256)
    IN  modr_reduce256_partial(w % 256, w \div 256)

scalar_zero == 0
scalar_one == 1
scalar_is_zero(d) == IF d = 0 THEN MASK_ONES ELSE 0
scalar_encode(a) == EncLE(a, KEY_LEN)
\* scalar_decode: <<mask, value>>
scalar_decode(src) ==
    LET d == DecLE(src)
        r == modr_is_reduced(d)
    IN  << r, IF r = MASK_ONES THEN d ELSE 0 >>

\* chunks of one byte (16 in the code) below a top chunk of KEY_LEN bytes
RECURSIVE ReduceChunks(_, _, _)
ReduceChunks(d, buf, len) ==
    IF len = 0 THEN d
    ELSE ReduceChunks(modr_reduce384_partial(buf[len] + 16 * d), buf, len - 1)

scalar_decode_reduce(src, len) ==
    IF len < KEY_LEN THEN DecLE(SubSeq(src, 1, len))
    ELSE LET clen == KEY_LEN
             top == DecLE(SubSeq(src, len - clen + 1, len))
             d == modr_reduce256_partial(top, 0)
         IN  modr_reduce256_finish(ReduceChunks(d, src, len - clen))

scalar_select(a0, a1, ctl) == IF ctl = MASK_ONES THEN a1 ELSE a0
scalar_add(a, b) == modr_inner_reduce(a + b)
scalar_mul(a, b) ==
    LET t == a * b
        hi == modr_reduce384_partial(t \div 16)
    IN  modr_reduce256_finish(modr_reduce384_partial(hi * 16 + (t % 16)))

\* uint_recode: sd_len digits in -15..+16, s = sum sd[i]*2^(5*i)
RECURSIVE uint_recode_from(_, _, _)
uint_recode_from(s, n, cc) ==
    IF n = 0 THEN << >>
    ELSE IF s = 0 /\ cc = 0 THEN [i \in 1 .. n |-> 0]
    ELSE LET v == (s % 32) + cc
             c2 == IF v > 16 THEN 1 ELSE 0
         IN  << v - 32 * c2 >> \o uint_recode_from(s \div 32, n - 1, c2)
uint_recode(sd_len, s) == uint_recode_from(s, sd_len, 0)
scalar_recode(s) == uint_recode(51, s)

\* uint_recode_wNAF: sd_len digits, each 0 or odd in -15..+15
RECURSIVE uint_recode_wNAF_from(_, _)
uint_recode_wNAF_from(x, n) ==
    IF n = 0 THEN << >>
    ELSE IF x = 0 THEN [j \in 1 .. n |-> 0]
    ELSE LET v == IF x % 2 = 1 THEN x % 32 ELSE 0
             d == IF v >= 16 THEN v - 32 ELSE v
         IN  << d >> \o uint_recode_wNAF_from((x - d) \div 2, n - 1)
uint_recode_wNAF(sd_len, u) == uint_recode_wNAF_from(u, sd_len)
scalar_recode_wNAF(s) == uint_recode_wNAF(256, s)

\* round(k*e / r)
mul_divr_rounded(k, e) == (k * e + HR) \div R
Abs(x) == IF x < 0 THEN -x ELSE x
eU == 5
eV == 6
\* scalar_split: <<|k0|, |k1|, signs>>, bit 0 of signs for k0, bit 1 for k1
scalar_split(k) ==
    LET c == mul_divr_rounded(k, eV)
        d == mul_divr_rounded(k, eU)
        k0 == k - d * eU - c * eV
        k1 == d * eV - c * eU
    IN  << Abs(k0), Abs(k1),
           (IF k0 < 0 THEN 1 ELSE 0) + (IF k1 < 0 THEN 2 ELSE 0) >>

(***************************************************************************)
(* Window lookups and multipliers                                          *)
(***************************************************************************)
\* win[j] = (j+1)*P1 (0-based j, as in the code; the sequence is 1-based)
RECURSIVE point_lookup_from(_, _, _, _)
point_lookup_from(p2, win, m, j) ==
    IF j = 16 THEN p2
    ELSE point_lookup_from(
             point_select(p2, win[j + 1], IF m - j - 1 = 0 THEN MASK_ONES ELSE 0),
             win, m, j + 1)
point_lookup(win, k) ==
    LET sk == IF k < 0 THEN MASK_ONES ELSE 0
        p2 == point_lookup_from(point_neutral, win, Abs(k), 0)
    IN  << p2[1], p2[2], gf_condneg(p2[3], sk), p2[4] >>
point_affine_lookup(win, k) ==
    LET sk == IF k < 0 THEN MASK_ONES ELSE 0
        p2 == point_lookup_from(point_affine_neutral, win, Abs(k), 0)
    IN  << p2[1], gf_condneg(p2[2], sk), p2[3] >>

\* The two lookups as the code computes them on 32-bit words: the absolute
\* value and the sign of the digit, the mask of every entry, and the
\* selections.  The digit k is an int8_t.
\* << m, sk >>: m = |k| and sk all ones when k < 0
lookup_abs(k) ==
    LET m == k % 256
        sk == -(m \div 128)
    IN  << (((IF sk = MASK_ONES THEN MaskNot(m) ELSE m) - sk) % 256), sk >>

\* a mask that selects the entry after the right one
lookup_mask_next(m, j) ==
    LET c == m - j
    IN  (IF c < 0 \/ -c < 0 THEN 1 ELSE 0) - 1

\* c = m - j - 1; c = ((c | -c) >> 31) - 1
lookup_mask(m, j) ==
    LET c == m - j - 1
    IN  (IF c < 0 \/ -c < 0 THEN 1 ELSE 0) - 1

\* The loop of both lookups: for j from st.j to 15, the entry win[j] is
\* read and selected into p2 under its mask; st.masks and st.read are the
\* masks computed and the indices of the entries read.
RECURSIVE lookup_loop(_, _, _)
lookup_loop(st, win, m) ==
    CASE Evaluated(st) ->
        IF st.j = 16 THEN st
        ELSE lookup_loop(
                 [ p2 |-> [ n \in 1 .. Len(st.p2) |->
                              gf_select(st.p2[n], win[st.j + 1][n], lookup_mask(m, st.j)) ],
                   masks |-> Append(st.masks, lookup_mask(m, st.j)),
                   read |-> Append(st.read, st.j),
                   j |-> st.j + 1 ],
                 win, m)

\* point_lookup(&p2, win, k): p2, the masks and the entries read
point_lookup_words(win, k) ==
    LET a == lookup_abs(k)
        st == lookup_loop([ p2 |-> point_neutral, masks |-> << >>, read |-> << >>,
                            j |-> 0 ], win, a[1])
    IN  [ p2 |-> << st.p2[1], st.p2[2], gf_condneg(st.p2[3], a[2]), st.p2[4] >>,
          masks |-> st.masks, read |-> st.read ]

\* point_affine_lookup(&p2, win, k): p2, the masks and the entries read
point_affine_lookup_words(win, k) ==
    LET a == lookup_abs(k)
        st == lookup_loop([ p2 |-> point_affine_neutral, masks |-> << >>,
                            read |-> << >>, j |-> 0 ], win, a[1])
    IN  [ p2 |-> << st.p2[1], gf_condneg(st.p2[2], a[2]), st.p2[3] >>,
          masks |-> st.masks, read |-> st.read ]

\* Square root of -1 in the field
ETA == 10

\* win[i] = 2*win[(i-1)/2] and win[i+1] = win[i] + win[0], for i = 1, 3, ..
RECURSIVE MulWindow(_, _)
MulWindow(win, i) ==
    CASE Evaluated(win) ->
        IF i >= 15 THEN Append(win, point_double(win[8]))
        ELSE LET d == point_double(win[(i \div 2) + 1])
             IN  MulWindow(win \o << d, point_add(d, win[1]) >>, i + 2)

\* the endomorphism applied to a looked-up point: U <- U*eta, T <- -T
Zeta(p, eta) == << p[1], p[2], gf_mul(p[3], eta), gf_neg(p[4]) >>

\* body of the loop of point_mul for digit position i
point_mul_step(p2, win, eta, sd0, sd1, i) ==
    LET a == point_xdouble(p2, 5)
        b == point_add(a, point_lookup(win, sd0[i + 1]))
    IN  point_add(b, Zeta(point_lookup(win, sd1[i + 1]), eta))

\* for (i = hi; i >= lo; i --)
RECURSIVE point_mul_loop(_, _, _, _, _, _, _)
point_mul_loop(p2, win, eta, sd0, sd1, hi, lo) ==
    CASE Evaluated(p2) ->
        IF hi < lo THEN p2
        ELSE point_mul_loop(point_mul_step(p2, win, eta, sd0, sd1, hi),
                            win, eta, sd0, sd1, hi - 1, lo)

\* point_mul once the window, eta and the two digit strings are computed:
\* the top digits, then the loop
point_mul_digits(win, eta, sd0, sd1) ==
    CASE Evaluated(<< win, eta, sd0, sd1 >>) ->
        point_mul_loop(point_add(point_lookup(win, sd0[26]),
                                 Zeta(point_lookup(win, sd1[26]), eta)),
                       win, eta, sd0, sd1, 24, 0)

\* P2 <- s*P1 (JQ255E branch: endomorphism split)
point_mul(p1, s) ==
    LET sp == scalar_split(s)
        sk == sp[3]
        w0 == << p1[1], p1[2],
                 gf_condneg(p1[3], IF sk % 2 = 1 THEN MASK_ONES ELSE 0), p1[4] >>
    IN  point_mul_digits(
            MulWindow(<< w0 >>, 1),
            gf_condneg(ETA, IF (sk % 2) # (sk \div 2) THEN MASK_ONES ELSE 0),
            uint_recode(26, sp[1]), uint_recode(26, sp[2]))

\* Points i*G for i = 1 to 16, affine extended format <<E, U, T>>
point_win_base ==
    << <<3, 1, 1>>, <<93, 28, 77>>, <<84, 14, 95>>, <<85, 17, 87>>,
       <<91, 45, 5>>, <<10, 46, 96>>, <<75, 11, 20>>, <<66, 26, 70>>,
       <<76, 31, 52>>, <<89, 3, 9>>, <<3, 10, 100>>, <<89, 71, 92>>,
       <<87, 83, 21>>, <<31, 50, 76>>, <<67, 21, 37>>, <<26, 92, 81>> >>
\* Points i*(2^65)*G
point_win_base65 ==
    << <<31, 96, 25>>, <<17, 87, 95>>, <<38, 38, 30>>, <<10, 46, 96>>,
       <<25, 94, 49>>, <<25, 70, 52>>, <<59, 82, 58>>, <<89, 71, 92>>,
       <<85, 69, 14>>, <<34, 80, 37>>, <<31, 51, 76>>, <<34, 8, 64>>,
       <<98, 10, 100>>, <<14, 79, 80>>, <<66, 75, 70>>, <<59, 12, 43>> >>
\* Points i*(2^130)*G
point_win_base130 ==
    << <<14, 83, 21>>, <<38, 38, 30>>, <<93, 78, 24>>, <<25, 70, 52>>,
       <<85, 84, 87>>, <<85, 69, 14>>, <<71, 49, 78>>, <<34, 8, 64>>,
       <<10, 56, 5>>, <<66, 75, 70>>, <<14, 22, 80>>, <<66, 58, 31>>,
       <<31, 50, 76>>, <<98, 100, 1>>, <<89, 30, 92>>, <<71, 86, 23>> >>
\* Points i*(2^195)*G
point_win_base195 ==
    << <<3, 10, 100>>, <<93, 78, 24>>, <<84, 39, 6>>, <<85, 69, 14>>,
       <<91, 46, 96>>, <<10, 56, 5>>, <<75, 9, 81>>, <<66, 58, 31>>,
       <<76, 7, 49>>, <<89, 30, 92>>, <<3, 100, 1>>, <<89, 3, 9>>,
       <<87, 22, 80>>, <<31, 96, 25>>, <<67, 8, 64>>, <<26, 11, 20>> >>

\* a loop body that reads the digit for the fourth window one place too low
point_mulgen_step_low_digit(p, sd, i) ==
    LET a == point_xdouble(p, 5)
        b == point_add_affine(a, point_affine_lookup(point_win_base, sd[i + 1]))
        c == point_add_affine(b, point_affine_lookup(point_win_base65, sd[i + 14]))
        d == point_add_affine(c, point_affine_lookup(point_win_base130, sd[i + 27]))
    IN  point_add_affine(d, point_affine_lookup(point_win_base195, sd[i + 39]))

\* body of the loop of point_mulgen for index i
point_mulgen_step(p, sd, i) ==
    LET a == point_xdouble(p, 5)
        b == point_add_affine(a, point_affine_lookup(point_win_base, sd[i + 1]))
        c == point_add_affine(b, point_affine_lookup(point_win_base65, sd[i + 14]))
        d == point_add_affine(c, point_affine_lookup(point_win_base130, sd[i + 27]))
    IN  point_add_affine(d, point_affine_lookup(point_win_base195, sd[i + 40]))

RECURSIVE point_mulgen_loop(_, _, _, _)
point_mulgen_loop(p, sd, hi, lo) ==
    CASE Evaluated(p) ->
        IF hi < lo THEN p
        ELSE point_mulgen_loop(point_mulgen_step(p, sd, hi), sd, hi - 1, lo)

\* point_mulgen once the digits are computed: the top digits, then the loop
point_mulgen_digits(sd) ==
    LET qa == point_affine_lookup(point_win_base, sd[13])
        p0 == << qa[1], gf_one, qa[2], qa[3] >>
        p1 == point_add_affine(p0, point_affine_lookup(point_win_base65, sd[26]))
    IN  CASE Evaluated(sd) ->
            point_mulgen_loop(
                point_add_affine(p1, point_affine_lookup(point_win_base130, sd[39])),
                sd, 11, 0)

\* P <- s*G
point_mulgen(s) == point_mulgen_digits(scalar_recode(s))

\* wNAF window: win[i] = (2*i+1)*P1
RECURSIVE WnafWindow(_, _, _)
WnafWindow(win, dbl, i) ==
    CASE Evaluated(win) ->
        IF i = 8 THEN win
        ELSE WnafWindow(Append(win, point_add(win[i], dbl)), dbl, i + 1)

\* the three conditional additions of one position of the sweep
VartimeAdd(p, win, e) ==
    IF e = 0 THEN p
    ELSE IF e > 0 THEN point_add(p, win[(e \div 2) + 1])
    ELSE point_sub(p, win[((-e) \div 2) + 1])
VartimeAddAffine(p, win, e) ==
    IF e = 0 THEN p
    ELSE IF e > 0 THEN point_add_affine(p, win[e])
    ELSE point_sub_affine(p, win[-e])

\* a position of the sweep that applies one doubling too few
VartimeStepShort(st, win, eu, ev0, ev1) ==
    IF eu = 0 /\ ev0 = 0 /\ ev1 = 0 THEN << st[1], st[2], st[3] + 1 >>
    ELSE << VartimeAddAffine(
                VartimeAddAffine(
                    VartimeAdd(IF st[2] = 1 THEN point_neutral
                               ELSE point_xdouble(st[1], st[3]),
                               win, eu),
                    point_win_base, ev0),
                point_win_base130, ev1),
            0, 0 >>

\* one position of the top-down sweep; st = <<p2, zz, ndbl>>
VartimeStep(st, win, eu, ev0, ev1) ==
    IF eu = 0 /\ ev0 = 0 /\ ev1 = 0 THEN << st[1], st[2], st[3] + 1 >>
    ELSE << VartimeAddAffine(
                VartimeAddAffine(
                    VartimeAdd(IF st[2] = 1 THEN point_neutral
                               ELSE point_xdouble(st[1], st[3] + 1),
                               win, eu),
                    point_win_base, ev0),
                point_win_base130, ev1),
            0, 0 >>

\* for (i = hi; i >= lo; i --): the positions are visited in the loop's
\* order; the range is halved to keep TLC's evaluation stack shallow
RECURSIVE VartimeSweep(_, _, _, _, _, _)
VartimeSweep(st, win, sdu, sdv, hi, lo) ==
    CASE Evaluated(st) ->
        IF hi < lo THEN st
        ELSE IF hi = lo
        THEN VartimeStep(st, win, sdu[hi + 1], sdv[hi + 1],
                         IF hi < 126 THEN sdv[hi + 131] ELSE 0)
        ELSE VartimeSweep(
                 VartimeSweep(st, win, sdu, sdv, hi, ((hi + lo) \div 2) + 1),
                 win, sdu, sdv, (hi + lo) \div 2, lo)

\* the pending doublings after the last position
VartimeFinish(st) ==
    IF st[2] = 1 THEN point_neutral ELSE point_xdouble(st[1], st[3])

\* the sweep once the window and the two digit strings are computed
VartimeDigits(win, sdu, sdv) ==
    CASE Evaluated(<< win, sdu, sdv >>) ->
        VartimeFinish(VartimeSweep(<< point_neutral, 1, 0 >>,
                                   win, sdu, sdv, 129, 0))

\* P2 <- u*P1 + v*G
point_mul128_add_mulgen_vartime(p1, u, v) ==
    LET dbl == point_double(p1)
    IN  VartimeDigits(WnafWindow(<< p1, point_add(dbl, p1) >>, dbl, 2),
                      uint_recode_wNAF(130, u), scalar_recode_wNAF(v))

(***************************************************************************)
(* SECTION 2, CHUNK LEVEL: DECODING WITH REDUCTION                         *)
(*                                                                         *)
(* scalar_decode_reduce cuts its input in chunks of 16 bytes, half the     *)
(* length of a scalar.  It is modelled with chunks of CHUNK_LEN bytes and  *)
(* scalars of 2 * CHUNK_LEN bytes, the integer 2^256 being TWO256, and     *)
(* r = 2^254 - r0 with r0 below the square root of 2^254.                  *)
(***************************************************************************)
CHUNK_LEN == 2
TWO256 == 16 ^ (2 * CHUNK_LEN)
TWO254 == TWO256 \div 4
RC0 == 3
RC == TWO254 - RC0

modr_is_reduced_c(a) == IF a < RC THEN MASK_ONES ELSE 0
modr_inner_reduce_c(a) ==
    IF modr_is_reduced_c(a) = MASK_ONES THEN a ELSE (a - RC) % TWO256

\* the bits from bit 254 up, and the limb ah above them, are wrapped
modr_reduce256_partial_c(a, ah) ==
    LET h == ah * 4 + (a \div TWO254)
    IN  h * RC0 + (a % TWO254)
modr_reduce256_finish_c(a) == modr_inner_reduce_c(a)
\* t <- r0*floor(a/2^256); t <- 4*t + (a mod 2^256)
modr_reduce384_partial_c(a) ==
    LET t == RC0 * (a \div TWO256)
        w == 4 * t + (a % TWO256)
    IN  modr_reduce256_partial_c(w % TWO256, w \div TWO256)

\* The loop over the chunks below the top one: st.d is the scalar, st.len
\* the length left, st.at the offsets of the chunks read so far.
RECURSIVE scalar_decode_reduce_loop(_, _)
scalar_decode_reduce_loop(st, buf) ==
    CASE Evaluated(st) ->
        IF st.len > 0
        THEN scalar_decode_reduce_loop(
                 [ d |-> modr_reduce384_partial_c(
                             DecLE(SubSeq(buf, st.len - CHUNK_LEN + 1, st.len))
                                 + (16 ^ CHUNK_LEN) * st.d),
                   len |-> st.len - CHUNK_LEN,
                   at |-> Append(st.at, st.len - CHUNK_LEN) ],
                 buf)
        ELSE st

\* a decoder that leaves the last partial reduction as it is
scalar_decode_reduce_unfinished(src, len) ==
    IF len < 2 * CHUNK_LEN
    THEN [ d |-> DecLE(SubSeq(src, 1, len)), clen |-> len, at |-> << >> ]
    ELSE LET clen == CHUNK_LEN + 1 + ((len - 1) % CHUNK_LEN)
             top == DecLE(SubSeq(src, len - clen + 1, len))
             st == scalar_decode_reduce_loop(
                       [ d |-> IF clen < 2 * CHUNK_LEN THEN top
                               ELSE modr_reduce256_partial_c(top, 0),
                         len |-> len - clen, at |-> << >> ], src)
         IN  [ d |-> st.d, clen |-> clen, at |-> st.at ]

\* scalar_decode_reduce(&d, src, len): d, the length of the top chunk, and
\* the offsets of the chunks read after it
scalar_decode_reduce_c(src, len) ==
    IF len < 2 * CHUNK_LEN
    THEN [ d |-> DecLE(SubSeq(src, 1, len)), clen |-> len, at |-> << >> ]
    ELSE LET clen == CHUNK_LEN + 1 + ((len - 1) % CHUNK_LEN)
             top == DecLE(SubSeq(src, len - clen + 1, len))
             st == scalar_decode_reduce_loop(
                       [ d |-> IF clen < 2 * CHUNK_LEN THEN top
                               ELSE modr_reduce256_partial_c(top, 0),
                         len |-> len - clen, at |-> << >> ], src)
         IN  [ d |-> modr_reduce256_finish_c(st.d), clen |-> clen, at |-> st.at ]

(***************************************************************************)
(* SECTION 2, LIMB LEVEL: RECODING                                         *)
(*                                                                         *)
(* The two recoding functions as they read their input, limb by limb, at   *)
(* the widths of the code: an integer is a tuple of 32-bit limbs, least    *)
(* significant first, a scalar has eight of them, and the digits are       *)
(* those of the code, 5 bits wide.  A uint32_t limb is written as the      *)
(* int32 with the same bits.                                               *)
(***************************************************************************)
\* the limb whose 16-bit halves are hi and lo
Word(hi, lo) == IF hi >= 32768 THEN (hi - 65536) * 65536 + lo ELSE hi * 65536 + lo
\* x >> n on a uint32_t, for 0 < n < 32
Lsr(x, n) == IF x >= 0 THEN x \div (2 ^ n)
             ELSE ((x + 2147483647 + 1) \div (2 ^ n)) + 2 ^ (31 - n)

\* the group order r as the code has it, in eight limbs
R_limbs ==
    << Word(29912, 17701), Word(8018, 51374), Word(21511, 35923),
       Word(40204, 37647), Word(65535, 65535), Word(65535, 65535),
       Word(65535, 65535), Word(16383, 65535) >>

\* a digit emitted for every chunk, negative or not
uint_recode_digit_any(v) == << v - 32 * (IF v > 15 THEN 1 ELSE 0), IF v > 15 THEN 1 ELSE 0 >>

\* the digit for the chunk v, carry in included: << digit, carry out >>
uint_recode_digit(v) == << v - 32 * (IF v > 16 THEN 1 ELSE 0), IF v > 16 THEN 1 ELSE 0 >>

\* The body of the loop of uint_recode.  st.acc holds the st.acc_len bits
\* not yet recoded of the limbs read so far, st.j limbs have been read and
\* st.cc is the carry; st.sd is what has been written to sd.
uint_recode_body(st, s) ==
    IF st.acc_len < 5
    THEN LET t == uint_recode_digit(
                      ((st.acc + (s[st.j + 1] % 32) * (2 ^ st.acc_len)) % 32) + st.cc)
         IN  [ sd |-> Append(st.sd, t[1]),
               acc |-> Lsr(s[st.j + 1], 5 - st.acc_len),
               acc_len |-> st.acc_len + 27, j |-> st.j + 1, cc |-> t[2] ]
    ELSE LET t == uint_recode_digit((st.acc % 32) + st.cc)
         IN  [ sd |-> Append(st.sd, t[1]), acc |-> Lsr(st.acc, 5),
               acc_len |-> st.acc_len - 5, j |-> st.j, cc |-> t[2] ]

\* n turns of the loop, from st on
RECURSIVE uint_recode_loop(_, _, _)
uint_recode_loop(st, n, s) ==
    CASE Evaluated(st) ->
        IF n = 0 THEN st
        ELSE IF n = 1 THEN uint_recode_body(st, s)
        ELSE uint_recode_loop(uint_recode_loop(st, n \div 2, s), n - (n \div 2), s)

uint_recode_limbs(sd_len, s) ==
    uint_recode_loop([ sd |-> << >>, acc |-> s[1], acc_len |-> 32, j |-> 1, cc |-> 0 ],
                     sd_len, s).sd
scalar_recode_limbs(s) == uint_recode_limbs(51, s)

\* a digit taken from the low 4 bits only
uint_recode_wNAF_digit_w4(x) ==
    LET v == IF x % 2 = 1 THEN x % 16 ELSE 0
    IN  IF v >= 8 THEN v - 16 ELSE v

\* the digit for the window x: 0 when x is even, else the low 5 bits of x
\* read as a signed value
uint_recode_wNAF_digit(x) ==
    LET v == IF x % 2 = 1 THEN x % 32 ELSE 0
    IN  IF v >= 16 THEN v - 32 ELSE v

\* a window that is refilled with the half limbs 4 bits too low
uint_recode_wNAF_window_low(x, j, lim, w) ==
    IF j % 32 = 12 /\ j < lim THEN x + Lsr(w, 16)
    ELSE IF j % 32 = 28 /\ j < lim THEN x + (w % 65536)
    ELSE x

\* the window before digit j is made: at j = 12 mod 32 the high half of the
\* limb w is added above the 4 bits left, at j = 28 mod 32 the low half,
\* as long as j is below lim
uint_recode_wNAF_window(x, j, lim, w) ==
    IF j % 32 = 12 /\ j < lim THEN x + Lsr(w, 16) * 16
    ELSE IF j % 32 = 28 /\ j < lim THEN x + (w % 65536) * 16
    ELSE x

\* The digit that the body of the loop of uint_recode_wNAF writes: st.x is
\* the window, st.p the limb that u points at, and a limb is read only
\* when the index j = Len(st.sd) is below lim.
uint_recode_wNAF_next(st, u, lim) ==
    uint_recode_wNAF_digit(
        uint_recode_wNAF_window(st.x, Len(st.sd), lim,
                                IF Len(st.sd) < lim THEN u[st.p] ELSE 0))

\* The body of the loop, writing the digit d.
uint_recode_wNAF_body(st, u, lim, d) ==
    [ sd |-> Append(st.sd, d),
      p |-> IF Len(st.sd) % 32 = 12 /\ Len(st.sd) < lim THEN st.p + 1 ELSE st.p,
      x |-> (uint_recode_wNAF_window(st.x, Len(st.sd), lim,
                                     IF Len(st.sd) < lim THEN u[st.p] ELSE 0) - d)
            \div 2 ]

\* n turns of the loop, from st on
RECURSIVE uint_recode_wNAF_loop(_, _, _, _)
uint_recode_wNAF_loop(st, n, u, lim) ==
    CASE Evaluated(st) ->
        IF n = 0 THEN st
        ELSE IF n = 1
        THEN uint_recode_wNAF_body(st, u, lim, uint_recode_wNAF_next(st, u, lim))
        ELSE uint_recode_wNAF_loop(uint_recode_wNAF_loop(st, n \div 2, u, lim),
                                   n - (n \div 2), u, lim)

\* a limit that lets the last low half be read
uint_recode_wNAF_lim_whole(u_len) == 32 * u_len

\* lim = (u_len << 5) - 4
uint_recode_wNAF_lim(u_len) == 32 * u_len - 4

uint_recode_wNAF_limbs(sd_len, u, u_len) ==
    uint_recode_wNAF_loop([ sd |-> << >>, p |-> 1, x |-> u[1] % 65536 ],
                          sd_len, u, uint_recode_wNAF_lim(u_len)).sd

\* The limbs that one turn of the loop of uint_recode dereferences, counted
\* from 0: s[j] when the accumulator holds less than 5 bits.
uint_recode_reads(st) == IF st.acc_len < 5 THEN { st.j } ELSE { }

\* The limbs that one turn of the loop of uint_recode_wNAF dereferences,
\* counted from 0: *u at j = 12 and j = 28 mod 32, when j is below lim.
uint_recode_wNAF_reads(st, lim) ==
    IF Len(st.sd) % 32 \in { 12, 28 } /\ Len(st.sd) < lim THEN { st.p - 1 } ELSE { }
scalar_recode_wNAF_limbs(s) == uint_recode_wNAF_limbs(256, s, 8)

(***************************************************************************)
(* SECTION 4: HASH                                                         *)
(***************************************************************************)
\* A BLAKE2s context is modelled by the bytes absorbed so far, and the
\* digest by a fixed function of them (KEY_LEN bytes, for out_len = 32):
\* the scheme layer relies on the digest only as a function of its input.
blake2s_init == << >>
blake2s_update(bc, data) == bc \o data
RECURSIVE Blake2sFold(_, _)
Blake2sFold(h, m) ==
    IF m = << >> THEN h
    ELSE LET t == (h + Head(m) + 1) % 251
         IN  Blake2sFold((t * t * t) % 251, Tail(m))
blake2s_final(bc) == EncLE(Blake2sFold(Len(bc) % 251, bc), KEY_LEN)

(***************************************************************************)
(* SECTION 4, BUFFER LEVEL: BLAKE2S STREAMING                              *)
(*                                                                         *)
(* The context as the code keeps it, with a block of BLOCK_LEN bytes for   *)
(* the 64 of the code.  The state h is modelled by what made it: the       *)
(* sequence of the calls to process_block, each << block, t, f >>.         *)
(***************************************************************************)
\* sizeof bc->buf
BLOCK_LEN == 4

process_block(h, data, t, f) == Append(h, << data, t, f >>)

\* memcpy(buf + p, data, n)
Memcpy(buf, p, data, n) ==
    [ i \in 1 .. Len(buf) |-> IF i > p /\ i <= p + n THEN data[i - p] ELSE buf[i] ]
\* memset(buf + p, 0, n)
Memset0(buf, p, n) ==
    [ i \in 1 .. Len(buf) |-> IF i > p /\ i <= p + n THEN 0 ELSE buf[i] ]

\* blake2s_init leaves buf as it finds it: buf is the memory before the call
blake2s_init_ctx(buf) == [ buf |-> buf, h |-> << >>, ctr |-> 0 ]

\* The end of blake2s_update, from "Process the buffered block" on: the
\* block in buf, then every full block of data but the last, and the rest
\* of data into buf.  st = << h, ctr, offset in data >>.
RECURSIVE blake2s_update_rest(_, _, _)
blake2s_update_rest(st, data, len) ==
    CASE Evaluated(st) ->
        IF len - st[3] > BLOCK_LEN
        THEN blake2s_update_rest(
                 << process_block(st[1], SubSeq(data, st[3] + 1, st[3] + BLOCK_LEN),
                                  st[2] + BLOCK_LEN, 0),
                    st[2] + BLOCK_LEN, st[3] + BLOCK_LEN >>,
                 data, len)
        ELSE st

\* an update that compresses the buffer as soon as it is full
blake2s_update_eager(bc, data, len) ==
    IF len = 0 THEN bc
    ELSE LET p == bc.ctr % BLOCK_LEN
             clen == BLOCK_LEN - p
         IN  IF clen > len
             THEN [ bc EXCEPT !.buf = Memcpy(bc.buf, p, data, len), !.ctr = bc.ctr + len ]
             ELSE LET buf1 == Memcpy(bc.buf, p, data, clen)
                      st == blake2s_update_rest(
                                << process_block(bc.h, buf1, bc.ctr + clen, 0),
                                   bc.ctr + clen, clen >>, data, len)
                  IN  [ buf |-> Memcpy(buf1, 0, SubSeq(data, st[3] + 1, len), len - st[3]),
                        h |-> st[1], ctr |-> st[2] + (len - st[3]) ]

\* blake2s_update(&bc, data, len)
blake2s_update_ctx(bc, data, len) ==
    IF len = 0 THEN bc
    ELSE LET p == bc.ctr % BLOCK_LEN
             notfull == bc.ctr = 0 \/ p # 0
             clen == IF notfull THEN BLOCK_LEN - p ELSE 0
         IN  IF notfull /\ clen >= len
             THEN [ bc EXCEPT !.buf = Memcpy(bc.buf, p, data, len), !.ctr = bc.ctr + len ]
             ELSE LET buf1 == Memcpy(bc.buf, p, data, clen)
                      st == blake2s_update_rest(
                                << process_block(bc.h, buf1, bc.ctr + clen, 0),
                                   bc.ctr + clen, clen >>, data, len)
                  IN  [ buf |-> Memcpy(buf1, 0, SubSeq(data, st[3] + 1, len), len - st[3]),
                        h |-> st[1], ctr |-> st[2] + (len - st[3]) ]

\* blake2s_final(&bc, dst): the context it leaves; dst is made from h
blake2s_final_ctx(bc) ==
    LET p == bc.ctr % BLOCK_LEN
        buf1 == IF bc.ctr = 0 \/ p # 0 THEN Memset0(bc.buf, p, BLOCK_LEN - p)
                ELSE bc.buf
    IN  [ bc EXCEPT !.buf = buf1, !.h = process_block(bc.h, buf1, bc.ctr, 1) ]

(***************************************************************************)
(* SECTION 5: KEYS                                                         *)
(***************************************************************************)
\* A private key is a scalar.  A public key is [p |-> point, epub |-> the
\* KEY_LEN bytes stored after the point].  A key pair is
\* [private_key |-> ..., public_key |-> ...].
\* Every API function is an operator with the value
\*     << return value, what it writes, the byte strings it hashes >>.

\* x & m for a mask m
MaskBits(m, x) == IF m = MASK_ONES THEN x ELSE 0

jq_generate_private_key(seed) ==
    LET tmp == blake2s_final(blake2s_update(blake2s_init, seed))
        s == scalar_decode_reduce(tmp, KEY_LEN)
    IN  << 0, scalar_select(s, scalar_one, scalar_is_zero(s)), << >> >>

\* the point and, after it, its encoding
PublicKeyOfPoint(p) ==
    CASE Evaluated(p) -> [p |-> p, epub |-> point_encode(p)]

jq_make_public(sk) == << 0, PublicKeyOfPoint(point_mulgen(sk)), << >> >>

jq_generate_keypair(seed) ==
    LET sk == jq_generate_private_key(seed)[2]
    IN  << 0, [private_key |-> sk, public_key |-> jq_make_public(sk)[2]], << >> >>

\* a decoder that does not reject the zero scalar
jq_decode_private_key_zero_ok(src, len) ==
    IF len # KEY_LEN THEN << 0, scalar_zero, << >> >>
    ELSE LET d == scalar_decode(src)
         IN  << MaskBits(d[1], 1), d[2], << >> >>

jq_decode_private_key(src, len) ==
    IF len # KEY_LEN THEN << 0, scalar_zero, << >> >>
    ELSE LET d == scalar_decode(src)
             r == MaskAnd(d[1], MaskNot(scalar_is_zero(d[2])))
         IN  << MaskBits(r, 1), d[2], << >> >>

\* a decoder that does not reject the neutral point
jq_decode_public_key_neutral_ok(src, len) ==
    IF len # KEY_LEN
    THEN << 0, [p |-> point_neutral, epub |-> ZeroBytes(KEY_LEN)], << >> >>
    ELSE LET d == point_decode(src)
         IN  << MaskBits(d[1], 1), [p |-> d[2], epub |-> src], << >> >>

jq_decode_public_key(src, len) ==
    IF len # KEY_LEN
    THEN << 0, [p |-> point_neutral, epub |-> ZeroBytes(KEY_LEN)], << >> >>
    ELSE LET d == point_decode(src)
             r == MaskAnd(d[1], MaskNot(point_is_neutral(d[2])))
         IN  << MaskBits(r, 1), [p |-> d[2], epub |-> src], << >> >>

\* a decoder that clears each half on its own test only
jq_decode_keypair_by_halves(src, len) ==
    IF len # 2 * KEY_LEN
    THEN << 0, [private_key |-> scalar_zero,
                public_key |-> [p |-> point_neutral,
                                epub |-> ZeroBytes(KEY_LEN)]], << >> >>
    ELSE LET ds == scalar_decode(SubSeq(src, 1, KEY_LEN))
             dp == point_decode(SubSeq(src, KEY_LEN + 1, 2 * KEY_LEN))
             rs == MaskAnd(ds[1], MaskNot(scalar_is_zero(ds[2])))
             rp == MaskAnd(dp[1], MaskNot(point_is_neutral(dp[2])))
         IN  << MaskBits(MaskAnd(rs, rp), 1),
                [private_key |-> scalar_select(scalar_zero, ds[2], rs),
                 public_key |-> [p |-> point_select(point_neutral, dp[2], rp),
                                 epub |-> SubSeq(src, KEY_LEN + 1, 2 * KEY_LEN)]],
                << >> >>

jq_decode_keypair(src, len) ==
    IF len # 2 * KEY_LEN
    THEN << 0, [private_key |-> scalar_zero,
                public_key |-> [p |-> point_neutral,
                                epub |-> ZeroBytes(KEY_LEN)]], << >> >>
    ELSE LET ds == scalar_decode(SubSeq(src, 1, KEY_LEN))
             dp == point_decode(SubSeq(src, KEY_LEN + 1, 2 * KEY_LEN))
             r == MaskAnd(MaskAnd(ds[1], MaskNot(scalar_is_zero(ds[2]))),
                          MaskAnd(dp[1], MaskNot(point_is_neutral(dp[2]))))
         IN  << MaskBits(r, 1),
                [private_key |-> scalar_select(scalar_zero, ds[2], r),
                 public_key |-> [p |-> point_select(point_neutral, dp[2], r),
                                 epub |-> SubSeq(src, KEY_LEN + 1, 2 * KEY_LEN)]],
                << >> >>

jq_encode_private_key(sk) == << KEY_LEN, scalar_encode(sk), << >> >>

\* an encoder that copies the stored bytes whatever the key
jq_encode_public_key_unmasked(pk) == << KEY_LEN, pk.epub, << >> >>

jq_encode_public_key(pk) ==
    LET r == MaskNot(point_is_neutral(pk.p))
    IN  << KEY_LEN, [i \in 1 .. KEY_LEN |-> MaskBits(r, pk.epub[i])], << >> >>

jq_encode_keypair(k) ==
    << 2 * KEY_LEN,
       jq_encode_private_key(k.private_key)[2]
          \o jq_encode_public_key(k.public_key)[2],
       << >> >>

(***************************************************************************)
(* SECTION 6: SIGNATURES AND KEY EXCHANGE                                  *)
(***************************************************************************)
\* A challenge has CHAL_LEN bytes (16 in the code), a signature SIG_LEN (48).
CHAL_LEN == 1
SIG_LEN == 3

\* A hash_name argument is the memory it points to, up to and including
\* the terminating zero: "" is <<0>>, and a NULL pointer is NULL_NAME.
NULL_NAME == << >>
RECURSIVE strlen(_)
strlen(s) == IF Head(s) = 0 THEN 0 ELSE 1 + strlen(Tail(s))

\* the name absorbed without its terminating zero
HashNameBytesUnterminated(hash_name) ==
    IF hash_name = NULL_NAME \/ hash_name[1] = 0 THEN << 82 >>
    ELSE << 72 >> \o SubSeq(hash_name, 1, strlen(hash_name))

\* the domain-separation bytes absorbed before hv: 0x52, or 0x48 and the
\* name with its terminating zero
HashNameBytes(hash_name) ==
    IF hash_name = NULL_NAME \/ hash_name[1] = 0 THEN << 82 >>
    ELSE << 72 >> \o SubSeq(hash_name, 1, strlen(hash_name) + 1)

\* the first n bytes of the digest, and the bytes that were absorbed
Digest(bc, n) == << SubSeq(blake2s_final(bc), 1, n), bc >>

\* the bytes make_sign_k absorbs
make_sign_k_absorbed(sec, epub, hash_name, hv, seed, seed_len) ==
    LET b1 == blake2s_update(blake2s_init, scalar_encode(sec))
        b2 == blake2s_update(b1, epub)
        b3 == blake2s_update(b2, EncLE(seed_len, 8))
        b4 == blake2s_update(b3, SubSeq(seed, 1, seed_len))
        b5 == blake2s_update(b4, HashNameBytes(hash_name))
    IN  blake2s_update(b5, hv)

make_sign_k(sec, epub, hash_name, hv, seed, seed_len) ==
    scalar_decode_reduce(
        blake2s_final(make_sign_k_absorbed(sec, epub, hash_name, hv, seed, seed_len)),
        KEY_LEN)

\* << the challenge, the bytes absorbed to compute it >>
make_challenge(r, epub, hash_name, hv) ==
    LET b1 == blake2s_update(blake2s_init, point_encode(r))
        b2 == blake2s_update(b1, epub)
        b3 == blake2s_update(b2, HashNameBytes(hash_name))
    IN  CASE Evaluated(r) -> Digest(blake2s_update(b3, hv), CHAL_LEN)

\* a signer with the operands exchanged: s = sec + k*c
SignatureOfSwapped(sec, k, challenge) ==
    CASE Evaluated(challenge) ->
        << SIG_LEN,
           challenge[1] \o scalar_encode(
               scalar_add(scalar_mul(scalar_decode_reduce(challenge[1], CHAL_LEN),
                                     k), sec)),
           << >> >>

\* s = k + sec*c, and the signature
SignatureOf(sec, k, challenge) ==
    CASE Evaluated(challenge) ->
        << SIG_LEN,
           challenge[1] \o scalar_encode(
               scalar_add(scalar_mul(scalar_decode_reduce(challenge[1], CHAL_LEN),
                                     sec), k)),
           << >> >>

jq_sign_seeded(jk, hash_name, hv, seed, seed_len) ==
    LET sec == jk.private_key
        epub == jk.public_key.epub
        k == make_sign_k(sec, epub, hash_name, hv, seed, seed_len)
    IN  SignatureOf(sec, k, make_challenge(point_mulgen(k), epub, hash_name, hv))

\* a jq_sign that hands a seed of one byte to jq_sign_seeded
jq_sign_with_seed(jk, hash_name, hv) ==
    jq_sign_seeded(jk, hash_name, hv, << 1 >>, 1)

jq_sign(jk, hash_name, hv) == jq_sign_seeded(jk, hash_name, hv, << >>, 0)

\* memcmp(tmp, sig, 16) == 0
ChallengeMatches(sig, challenge) ==
    << IF challenge[1] = SubSeq(sig, 1, CHAL_LEN) THEN 1 ELSE 0,
       << >>, << challenge[2] >> >>

\* a verifier that reduces the scalar modulo r instead of rejecting a
\* non-canonical encoding
jq_verify_reducing(sig, sig_len, pk, hash_name, hv) ==
    IF sig_len # SIG_LEN THEN << 0, << >>, << >> >>
    ELSE IF point_is_neutral(pk.p) # 0 THEN << 0, << >>, << >> >>
    ELSE ChallengeMatches(sig,
             make_challenge(
                 point_mul128_add_mulgen_vartime(
                     point_neg(pk.p), DecLE(SubSeq(sig, 1, CHAL_LEN)),
                     scalar_decode_reduce(SubSeq(sig, CHAL_LEN + 1, SIG_LEN),
                                          KEY_LEN)),
                 pk.epub, hash_name, hv))

jq_verify(sig, sig_len, pk, hash_name, hv) ==
    IF sig_len # SIG_LEN THEN << 0, << >>, << >> >>
    ELSE IF point_is_neutral(pk.p) # 0 THEN << 0, << >>, << >> >>
    ELSE LET ds == scalar_decode(SubSeq(sig, CHAL_LEN + 1, SIG_LEN))
             c == DecLE(SubSeq(sig, 1, CHAL_LEN))
         IN  IF ds[1] = 0 THEN << 0, << >>, << >> >>
             ELSE ChallengeMatches(sig,
                      make_challenge(
                          point_mul128_add_mulgen_vartime(point_neg(pk.p), c, ds[2]),
                          pk.epub, hash_name, hv))

\* no comparison: the two encodings are hashed peer first, self second
EcdhBorrowNone(epub_self, epub_peer, i, cc) == 0

\* the borrow taken from the first byte to the last: the last byte would be
\* the most significant one
RECURSIVE EcdhBorrowForward(_, _, _, _)
EcdhBorrowForward(epub_self, epub_peer, i, cc) ==
    IF i = 0 THEN cc
    ELSE EcdhBorrowForward(epub_self, epub_peer, i - 1,
                           IF epub_self[KEY_LEN + 1 - i] - epub_peer[KEY_LEN + 1 - i] - cc < 0
                           THEN 1 ELSE 0)

\* the borrow of epub_self - epub_peer, bytes taken from the last to the first
RECURSIVE EcdhBorrow(_, _, _, _)
EcdhBorrow(epub_self, epub_peer, i, cc) ==
    IF i = 0 THEN cc
    ELSE EcdhBorrow(epub_self, epub_peer, i - 1,
                    IF epub_self[i] - epub_peer[i] - cc < 0 THEN 1 ELSE 0)

\* a derivation that returns bad & 1
EcdhDeriveMasked(bad, shared, epub_self, epub_peer) ==
    LET cc == EcdhBorrow(epub_self, epub_peer, KEY_LEN, 0)
        lo == IF cc = 1 THEN epub_self ELSE epub_peer
        hi == IF cc = 1 THEN epub_peer ELSE epub_self
        b1 == blake2s_update(blake2s_init, lo \o hi)
        b2 == blake2s_update(b1, << 83 - MaskBits(bad, 83 - 70) >>)
        h == Digest(blake2s_update(b2, shared), KEY_LEN)
    IN  CASE Evaluated(h) -> << MaskBits(bad, 1), h[1], << h[2] >> >>

\* the key derivation: the two encoded public keys in lexicographic order,
\* the domain byte, the shared secret
EcdhDerive(bad, shared, epub_self, epub_peer) ==
    LET cc == EcdhBorrow(epub_self, epub_peer, KEY_LEN, 0)
        lo == IF cc = 1 THEN epub_self ELSE epub_peer
        hi == IF cc = 1 THEN epub_peer ELSE epub_self
        b1 == blake2s_update(blake2s_init, lo \o hi)
        b2 == blake2s_update(b1, << 83 - MaskBits(bad, 83 - 70) >>)
        h == Digest(blake2s_update(b2, shared), KEY_LEN)
    IN  CASE Evaluated(h) -> << Wrap32(bad + 1), h[1], << h[2] >> >>

\* an exchange that hashes the encoded product whatever the peer key
jq_ECDH_keeping_point(jk_self, pk_peer) ==
    EcdhDerive(point_is_neutral(pk_peer.p),
               point_encode(point_mul(pk_peer.p, jk_self.private_key)),
               jk_self.public_key.epub, pk_peer.epub)

jq_ECDH(jk_self, pk_peer) ==
    LET bad == point_is_neutral(pk_peer.p)
        s == jk_self.private_key
        penc == point_encode(point_mul(pk_peer.p, s))
        senc == scalar_encode(s)
    IN  EcdhDerive(bad,
                   [i \in 1 .. KEY_LEN |->
                       IF bad = MASK_ONES THEN senc[i] ELSE penc[i]],
                   jk_self.public_key.epub, pk_peer.epub)

(***************************************************************************)
(* SECTION 7: THE LIBRARY AS A STATE MACHINE                               *)
(***************************************************************************)
\* jk:     the caller's key pairs, one per slot
\* pk:     a public key object of the caller (a peer's or a signer's key)
\* sig:    the signature buffer, with the arguments of the call that wrote it
\* shared: the shared-key buffer, with the arguments of the call that wrote it
\* origin: for each key object, the call that last wrote it
\* call:   the call that has just returned, or Idle
VARIABLES jk, pk, sig, shared, origin, call
vars == << jk, pk, sig, shared, origin, call >>

Slots == 1 .. 2

\* Bounds of the inputs.
NKeys == 2
MaxHvLen == 1
MaxSeedLen == 1

KeySeeds == { << 2 * i - 1 >> : i \in 1 .. NKeys }
Messages == { [i \in 1 .. n |-> (7 * i) % 16] : n \in 0 .. MaxHvLen }
SignSeeds == { [i \in 1 .. n |-> (9 * i) % 16] : n \in 0 .. MaxSeedLen }
HashNames == { NULL_NAME, << 0 >>, << 7, 0 >> }
ByteStrings(n) == UNION { [1 .. k -> Byte] : k \in 0 .. n }
Encodings == [1 .. KEY_LEN -> Byte]

Idle == [op |-> "idle", ret |-> 0, out |-> << >>, hashed |-> << >>,
         args |-> << >>, before |-> << >>]
\* the record of a call: r is the value of the API operator, args the
\* arguments, before the previous content of the buffer the call wrote
Returned(op, r, args, before) ==
    [op |-> op, ret |-> r[1], out |-> r[2], hashed |-> r[3],
     args |-> args, before |-> before]
Origin(op, ret, src, len) == [op |-> op, ret |-> ret, src |-> src, len |-> len]

NoSignature == [buf |-> ZeroBytes(SIG_LEN), written |-> FALSE, op |-> "",
                sec |-> 0, pub |-> << >>, hash_name |-> << >>,
                hv |-> << >>, seed |-> << >>]
NoShared == [buf |-> ZeroBytes(KEY_LEN), written |-> FALSE, ret |-> 0,
             hashed |-> << >>, self |-> << >>, peer |-> << >>]

\* every key pair is as jq_decode_keypair leaves it when given nothing, and
\* pk as jq_decode_public_key does
Init ==
    /\ jk = [i \in Slots |-> jq_decode_keypair(<< >>, 0)[2]]
    /\ pk = jq_decode_public_key(<< >>, 0)[2]
    /\ sig = NoSignature
    /\ shared = NoShared
    /\ origin = [private |-> [i \in Slots |->
                                 Origin("jq_decode_keypair", 0, << >>, 0)],
                 public |-> [w \in { 0 } \cup Slots |->
                                 IF w = 0
                                 THEN Origin("jq_decode_public_key", 0, << >>, 0)
                                 ELSE Origin("jq_decode_keypair", 0, << >>, 0)]]
    /\ call = Idle

\* the caller takes the result and is ready for its next call
Return ==
    /\ call.op # "idle"
    /\ call' = Idle
    /\ UNCHANGED << jk, pk, sig, shared, origin >>

\* jq_generate_private_key(&jk[i].private_key, seed, Len(seed))
GeneratePrivateKey(i, seed) ==
    /\ call.op = "idle"
    /\ call' = Returned("jq_generate_private_key", jq_generate_private_key(seed),
                        << i, seed >>, << >>)
    /\ jk' = [jk EXCEPT ![i].private_key = call'.out]
    /\ origin' = [origin EXCEPT !.private[i] =
                      Origin("jq_generate_private_key", 0, seed, Len(seed))]
    /\ UNCHANGED << pk, sig, shared >>

\* jq_generate_keypair(&jk[i], seed, Len(seed))
GenerateKeypair(i, seed) ==
    /\ call.op = "idle"
    /\ call' = Returned("jq_generate_keypair", jq_generate_keypair(seed),
                        << i, seed >>, << >>)
    /\ jk' = [jk EXCEPT ![i] = call'.out]
    /\ origin' = [origin EXCEPT
                      !.private[i] = Origin("jq_generate_keypair", 0, seed, Len(seed)),
                      !.public[i] = Origin("jq_generate_keypair", 0, seed, Len(seed))]
    /\ UNCHANGED << pk, sig, shared >>

\* jq_decode_private_key(&jk[i].private_key, src, len)
DecodePrivateKey(i, src, len) ==
    /\ call.op = "idle"
    /\ call' = Returned("jq_decode_private_key", jq_decode_private_key(src, len),
                        << i, src, len >>, << >>)
    /\ jk' = [jk EXCEPT ![i].private_key = call'.out]
    /\ origin' = [origin EXCEPT !.private[i] =
                      Origin("jq_decode_private_key", call'.ret, src, len)]
    /\ UNCHANGED << pk, sig, shared >>

\* jq_encode_private_key(dst, &jk[i].private_key)
EncodePrivateKey(i) ==
    /\ call.op = "idle"
    /\ call' = Returned("jq_encode_private_key",
                        jq_encode_private_key(jk[i].private_key), << i >>, << >>)
    /\ UNCHANGED << jk, pk, sig, shared, origin >>

\* The public key a call is given: jk[w].public_key, or pk when w = 0.
PublicKeyAt(w) == IF w = 0 THEN pk ELSE jk[w].public_key

\* jq_decode_public_key(&key, src, len)
DecodePublicKey(w, src, len) ==
    /\ call.op = "idle"
    /\ call' = Returned("jq_decode_public_key", jq_decode_public_key(src, len),
                        << w, src, len >>, << >>)
    /\ IF w = 0
       THEN pk' = call'.out /\ jk' = jk
       ELSE pk' = pk /\ jk' = [jk EXCEPT ![w].public_key = call'.out]
    /\ origin' = [origin EXCEPT !.public[w] =
                      Origin("jq_decode_public_key", call'.ret, src, len)]
    /\ UNCHANGED << sig, shared >>

\* jq_encode_public_key(dst, &key)
EncodePublicKey(w) ==
    /\ call.op = "idle"
    /\ call' = Returned("jq_encode_public_key",
                        jq_encode_public_key(PublicKeyAt(w)), << w >>, << >>)
    /\ UNCHANGED << jk, pk, sig, shared, origin >>

\* jq_decode_keypair(&jk[i], src, len)
DecodeKeypair(i, src, len) ==
    /\ call.op = "idle"
    /\ call' = Returned("jq_decode_keypair", jq_decode_keypair(src, len),
                        << i, src, len >>, << >>)
    /\ jk' = [jk EXCEPT ![i] = call'.out]
    /\ origin' = [origin EXCEPT
                      !.private[i] = Origin("jq_decode_keypair", call'.ret, src, len),
                      !.public[i] = Origin("jq_decode_keypair", call'.ret, src, len)]
    /\ UNCHANGED << pk, sig, shared >>

\* jq_encode_keypair(dst, &jk[i])
EncodeKeypair(i) ==
    /\ call.op = "idle"
    /\ call' = Returned("jq_encode_keypair", jq_encode_keypair(jk[i]),
                        << i >>, << >>)
    /\ UNCHANGED << jk, pk, sig, shared, origin >>

\* jq_make_public(&jk[i].public_key, &jk[i].private_key)
MakePublic(i) ==
    /\ call.op = "idle"
    /\ call' = Returned("jq_make_public", jq_make_public(jk[i].private_key),
                        << i >>, << >>)
    /\ jk' = [jk EXCEPT ![i].public_key = call'.out]
    /\ origin' = [origin EXCEPT !.public[i] =
                      Origin("jq_make_public", 0, << >>, 0)]
    /\ UNCHANGED << pk, sig, shared >>

\* The value n split over four limbs, and the bytes it is decoded from.
Limbs(n) ==
    << n % LIMB, (n \div LIMB) % LIMB, (n \div (LIMB * LIMB)) % LIMB,
       n \div (LIMB * LIMB * LIMB) >>
LimbBytes(a) == enc64le(a[1]) \o enc64le(a[2]) \o enc64le(a[3]) \o enc64le(a[4])

\* Bound of the inputs of the field functions: how far from each landmark.
Spread == 2

\* The limb-level inputs: the values within Spread of 0, of a limb boundary,
\* of q, of 2^255, of 2q and of 2^256 - 1, and of four values in between.
FieldInputs ==
    { Limbs((c + k) % FULL) :
         c \in { 0, LIMB, LIMB * LIMB, LIMB * LIMB * LIMB, QL, FULL \div 2,
                 2 * QL, 1234567, 4999999, 7654321, 11111111 },
         k \in (-Spread) .. Spread }

\* a function internal to the library has been called with args and has
\* returned or written r
InternalCall(op, r, args) ==
    /\ call.op = "idle"
    /\ call' = Returned(op, r, args, << >>)
    /\ UNCHANGED << jk, pk, sig, shared, origin >>

GfNeg(a) == InternalCall("gf_neg", << 0, gf_neg_w64(a), << >> >>, << a >>)
GfAdd(a, b) == InternalCall("gf_add", << 0, gf_add_w64(a, b), << >> >>, << a, b >>)
GfSub(a, b) == InternalCall("gf_sub", << 0, gf_sub_w64(a, b), << >> >>, << a, b >>)
GfMul2(a) == InternalCall("gf_mul2", << 0, gf_mul2_w64(a), << >> >>, << a >>)
GfHalf(a) == InternalCall("gf_half", << 0, gf_half_w64(a), << >> >>, << a >>)
GfMul(a, b) == InternalCall("gf_mul", << 0, gf_mul_w64(a, b), << >> >>, << a, b >>)
GfSquare(a) == InternalCall("gf_square", << 0, gf_square_w64(a), << >> >>, << a >>)
GfDecode(src) ==
    InternalCall("gf_decode", << gf_decode_w64(src)[1], gf_decode_w64(src)[2], << >> >>,
              << src >>)
GfEncode(a) == InternalCall("gf_encode", << 0, gf_encode_w64(a), << >> >>, << a >>)

\* gf_lsh(&d, &a, n)
LSH_MAX == 4
GfLsh(a, n) == InternalCall("gf_lsh", << 0, gf_lsh_w64(a, n), << >> >>, << a, n >>)

\* Bound of the input of scalar_decode_reduce: its length.
MaxReduceLen == 7

\* the byte strings given to scalar_decode_reduce: every length up to the
\* bound, every byte one of three
RECURSIVE ReduceInputsOf(_)
ReduceInputsOf(n) ==
    IF n = 0 THEN { << >> }
    ELSE { Append(s, b) : s \in ReduceInputsOf(n - 1), b \in { 0, 9, 15 } }
ReduceInputs == UNION { ReduceInputsOf(n) : n \in 0 .. MaxReduceLen }

\* scalar_decode_reduce(&d, src, Len(src))
ScalarDecodeReduce(src) ==
    InternalCall("scalar_decode_reduce",
                 << 0, scalar_decode_reduce_c(src, Len(src)), << >> >>, << src >>)

\* The digit strings given to the sweep: n digits, all zero but the digits
\* of marks, a set of << position, digit >>.
DigitsAt(n, marks) ==
    [ j \in 1 .. n |->
        IF \E m \in marks : m[1] = j - 1
        THEN (CHOOSE m \in marks : m[1] = j - 1)[2] ELSE 0 ]
\* wNAF digits of a 128-bit integer: non-zero up to position 128
UMarks ==
    { { }, { << 0, 1 >> }, { << 0, -15 >>, << 5, 1 >> }, { << 61, 7 >>, << 126, -3 >> },
      { << 2, -1 >>, << 128, 1 >> }, { << 125, 15 >> } }
\* wNAF digits of a scalar: non-zero up to position 254
VMarks ==
    { { }, { << 0, 1 >> }, { << 1, -5 >>, << 129, 3 >> }, { << 130, 1 >> },
      { << 125, -15 >>, << 254, 1 >> }, { << 126, 9 >>, << 131, -7 >> },
      { << 60, 3 >>, << 190, 5 >>, << 250, -1 >> } }

\* point_mul128_add_mulgen_vartime(&p2, &p1, u, &v), up to the loop: p1 is
\* k1*G, the window is made, and u and v are recoded into sdu and sdv.
\* When alias is TRUE p2 and p1 are the same object; p2 is otherwise not
\* initialized.  call.out is << p2, zz, ndbl >>, the next i of the loop, and
\* the object p1; call.before is the window.
VartimeBegin(k1, alias, sdu, sdv) ==
    /\ call.op = "idle"
    /\ LET p1 == point_mulgen(k1)
           dbl == point_double(p1)
       IN  call' = Returned("point_mul128_add_mulgen_vartime",
                            << 0, [ st |-> << IF alias THEN p1 ELSE << 0, 0, 0, 0 >>, 1, 0 >>,
                                    i |-> 129, p1 |-> p1 ], << >> >>,
                            << k1, alias, sdu, sdv >>,
                            WnafWindow(<< p1, point_add(dbl, p1) >>, dbl, 2))
    /\ UNCHANGED << jk, pk, sig, shared, origin >>

\* one turn of the loop, for i = call.out.i
VartimeLoop ==
    /\ call.op = "point_mul128_add_mulgen_vartime"
    /\ call.out.i >= 0
    /\ LET i == call.out.i
           st == VartimeStep(call.out.st, call.before, call.args[3][i + 1],
                             call.args[4][i + 1],
                             IF i < 126 THEN call.args[4][i + 131] ELSE 0)
       IN  call' = [ call EXCEPT !.out = [ st |-> st, i |-> i - 1,
                                           p1 |-> IF call.args[2] THEN st[1]
                                                  ELSE call.out.p1 ] ]
    /\ UNCHANGED << jk, pk, sig, shared, origin >>

\* after the loop: the pending doublings, and the function returns
VartimeEnd ==
    /\ call.op = "point_mul128_add_mulgen_vartime"
    /\ call.out.i = -1
    /\ LET p2 == VartimeFinish(call.out.st)
       IN  call' = [ call EXCEPT !.op = "point_mul128_add_mulgen_vartime returned",
                                 !.out = [ st |-> << p2, call.out.st[2], call.out.st[3] >>,
                                           i |-> -1,
                                           p1 |-> IF call.args[2] THEN p2
                                                  ELSE call.out.p1 ] ]
    /\ UNCHANGED << jk, pk, sig, shared, origin >>

\* point_lookup(&p2, win, k), win being the window that point_mul makes for
\* the point k1*G
PointLookup(k1, k) ==
    InternalCall("point_lookup",
                 << 0, point_lookup_words(MulWindow(<< point_mulgen(k1) >>, 1), k), << >> >>,
                 << MulWindow(<< point_mulgen(k1) >>, 1), k >>)
\* point_affine_lookup(&p2, win, k), win being one of the four tables
PointAffineLookup(win, k) ==
    InternalCall("point_affine_lookup",
                 << 0, point_affine_lookup_words(win, k), << >> >>, << win, k >>)

\* Bound of the doublings asked of point_xdouble.
MaxDoublings == 3

\* The points of the jq255s curve, each in two projective scalings.
PointsS ==
    { << (e * z) % QS, z, (u * z) % QS, (u * u * z) % QS >> :
         << e, u, z >> \in { t \in (0 .. QS - 1) \X (0 .. QS - 1) \X { 1, 5 } :
                                (t[1] * t[1]) % QS
                                = (1 + 2 * t[2] * t[2]
                                   - t[2] * t[2] * t[2] * t[2]) % QS } }

\* point_xdouble(&d, &p, n) on jq255s, up to its loop: the first doubling,
\* or the copy when n = 0; call.out holds X, W, J and the loop counter n
XdoubleBegin(p, n) ==
    /\ call.op = "idle"
    /\ call' = IF n = 0
               THEN Returned("point_xdouble returned",
                             << 0, [ xwj |-> << >>, n |-> 0, d |-> p ], << >> >>,
                             << p, n >>, << >>)
               ELSE Returned("point_xdouble",
                             << 0, [ xwj |-> xdouble_first_s(p), n |-> n, d |-> << >> ],
                                << >> >>,
                             << p, n >>, << >>)
    /\ UNCHANGED << jk, pk, sig, shared, origin >>

\* one turn of "while (n -- > 1)"; call.before keeps X, W, J as they were
XdoubleLoop ==
    /\ call.op = "point_xdouble"
    /\ call.out.n > 1
    /\ call' = [ call EXCEPT !.out = [ xwj |-> xdouble_extra_s(call.out.xwj),
                                       n |-> call.out.n - 1, d |-> << >> ],
                             !.before = call.out.xwj ]
    /\ UNCHANGED << jk, pk, sig, shared, origin >>

\* after the loop: the conversion, and the function returns
XdoubleEnd ==
    /\ call.op = "point_xdouble"
    /\ call.out.n <= 1
    /\ call' = [ call EXCEPT !.op = "point_xdouble returned",
                             !.out = [ xwj |-> call.out.xwj, n |-> 0,
                                       d |-> xdouble_finish_s(call.out.xwj) ] ]
    /\ UNCHANGED << jk, pk, sig, shared, origin >>

\* The names and the hashed values given to the two hash functions of a
\* signature: a NULL pointer, the empty string, names of one and two
\* characters taken from 0x07 and 0x48, and two names followed in memory by
\* more bytes; values of up to MaxHvLen + 1 bytes taken from 0x00 and 0x07.
NameChars == { 7, 72 }
DomainNames ==
    { NULL_NAME, << 0 >>, << 0, 7 >>, << 7, 0, 7 >> }
    \cup { << a, 0 >> : a \in NameChars }
    \cup { << a, b, 0 >> : a \in NameChars, b \in NameChars }
DomainMessages == UNION { [1 .. n -> { 0, 7 }] : n \in 0 .. MaxHvLen + 1 }

\* the call record of a hash function: its output, and what it absorbed
HashCall(out, absorbed) == << 0, out, << absorbed >> >>

\* make_challenge(tmp, &r, epub, hash_name, hv, Len(hv)), r being k*G and
\* epub the encoding of d*G
MakeChallenge(k, d, hash_name, hv) ==
    LET r == point_mulgen(k)
        epub == point_encode(point_mulgen(d))
        c == make_challenge(r, epub, hash_name, hv)
    IN  InternalCall("make_challenge", HashCall(c[1], c[2]),
                     << r, epub, hash_name, hv >>)

\* make_sign_k(&k, &sec, epub, hash_name, hv, Len(hv), seed, Len(seed)),
\* epub being the encoding of sec*G
MakeSignK(sec, hash_name, hv, seed) ==
    LET epub == point_encode(point_mulgen(sec))
    IN  InternalCall("make_sign_k",
                     HashCall(make_sign_k(sec, epub, hash_name, hv, seed, Len(seed)),
                              make_sign_k_absorbed(sec, epub, hash_name, hv, seed,
                                                   Len(seed))),
                     << sec, epub, hash_name, hv, seed >>)

\* The arrays given to the recoding functions, each followed in memory by
\* one more word: the eight limbs of a scalar for the 51 digits of
\* scalar_recode and the 256 digits of scalar_recode_wNAF, the five limbs
\* of k0 and k1 (the last one 0) for the 26 digits of point_mul, the four
\* limbs of u for the 130 digits of point_mul128_add_mulgen_vartime.
RecodeCalls ==
    { << 51, s >> : s \in { R_limbs, [i \in 1 .. 8 |-> Word(65535, 65535)] } }
    \cup { << 26, << a, Word(4660, 22136), a, Word(32767, 65535), 0 >> >> :
              a \in { 0, Word(65535, 65535) } }
WnafCalls ==
    { << 256, s >> : s \in { R_limbs, [i \in 1 .. 8 |-> Word(65535, 65535)] } }
    \cup { << 130, << a, Word(4660, 22136), a, Word(65535, 65535) >> >> :
              a \in { 0, Word(65535, 65535) } }
WordsAfter == { 0, Word(65535, 65535) }

\* uint_recode(sd, sd_len, s) up to its loop: acc = s[0]; call.args is
\* << sd_len, the array and the word after it, the limbs of the array >>
\* and call.out has the state of the loop and the limbs read
UintRecodeBegin(sd_len, s, after) ==
    /\ call.op = "idle"
    /\ call' = Returned("uint_recode",
                        << 0, [ st |-> [ sd |-> << >>, acc |-> s[1], acc_len |-> 32,
                                         j |-> 1, cc |-> 0 ],
                                reads |-> { 0 } ], << >> >>,
                        << sd_len, s \o << after >>, Len(s) >>, << >>)
    /\ UNCHANGED << jk, pk, sig, shared, origin >>

\* one turn of the loop of uint_recode
UintRecodeLoop ==
    /\ call.op = "uint_recode"
    /\ Len(call.out.st.sd) < call.args[1]
    /\ call' = [ call EXCEPT !.out = [ st |-> uint_recode_body(call.out.st, call.args[2]),
                                       reads |-> call.out.reads
                                                 \cup uint_recode_reads(call.out.st) ] ]
    /\ UNCHANGED << jk, pk, sig, shared, origin >>

\* after the loop, uint_recode returns
UintRecodeEnd ==
    /\ call.op = "uint_recode"
    /\ Len(call.out.st.sd) = call.args[1]
    /\ call' = [ call EXCEPT !.op = "uint_recode returned" ]
    /\ UNCHANGED << jk, pk, sig, shared, origin >>

\* uint_recode_wNAF(sd, sd_len, u, Len(u)) up to its loop: x = u[0] & 0xFFFF
UintRecodeWNAFBegin(sd_len, u, after) ==
    /\ call.op = "idle"
    /\ call' = Returned("uint_recode_wNAF loop",
                        << 0, [ st |-> [ sd |-> << >>, p |-> 1, x |-> u[1] % 65536 ],
                                reads |-> { 0 } ], << >> >>,
                        << sd_len, u \o << after >>, Len(u) >>, << >>)
    /\ UNCHANGED << jk, pk, sig, shared, origin >>

\* one turn of the loop of uint_recode_wNAF
UintRecodeWNAFLoop ==
    /\ call.op = "uint_recode_wNAF loop"
    /\ Len(call.out.st.sd) < call.args[1]
    /\ LET lim == uint_recode_wNAF_lim(call.args[3])
           st == call.out.st
       IN  call' = [ call EXCEPT
                       !.out = [ st |-> uint_recode_wNAF_body(
                                            st, call.args[2], lim,
                                            uint_recode_wNAF_next(st, call.args[2], lim)),
                                 reads |-> call.out.reads
                                           \cup uint_recode_wNAF_reads(st, lim) ] ]
    /\ UNCHANGED << jk, pk, sig, shared, origin >>

\* after the loop, uint_recode_wNAF returns
UintRecodeWNAFEnd ==
    /\ call.op = "uint_recode_wNAF loop"
    /\ Len(call.out.st.sd) = call.args[1]
    /\ call' = [ call EXCEPT !.op = "uint_recode_wNAF returned" ]
    /\ UNCHANGED << jk, pk, sig, shared, origin >>

\* gf_sqrt(&d, &a), on the residue model of the field
GfSqrt(a) == InternalCall("gf_sqrt", << gf_sqrt(a)[1], gf_sqrt(a)[2], << >> >>, << a >>)

\* Bound of the inputs of the recoding functions: how many sample limbs.
NWords == 6

\* the sample limbs: 0, 1, 0xFFFFFFFF, 0x80000000, 0x84210842, and more
WordSamples ==
    << Word(0, 0), Word(0, 1), Word(65535, 65535), Word(32768, 0),
       Word(33825, 2114), Word(23130, 42405), Word(32767, 65535),
       Word(4660, 22136) >>
Words == { WordSamples[i] : i \in 1 .. NWords }

\* Integers of four limbs: three sample limbs in turn.
Uint128Inputs == { << a, b, c, a >> : a \in Words, b \in Words, c \in Words }

\* Scalars, in eight limbs: the integers 0 .. 2^6 - 1, r - 1, r, and three
\* sample limbs in turn below a top limb that is 0, 0x3FFFFFFE or c.
ScalarInputs ==
    { << k, 0, 0, 0, 0, 0, 0, 0 >> : k \in 0 .. 63 }
    \cup { [R_limbs EXCEPT ![1] = R_limbs[1] - 1], R_limbs }
    \cup { << a, b, c, a, b, c, a, top >> :
              a \in Words, b \in Words, c \in Words,
              top \in { 0, Word(16383, 65534) } }
    \cup { << a, b, c, a, b, c, b, c >> : a \in Words, b \in Words, c \in Words }

\* scalar_recode(sd, &s)
ScalarRecode(s) ==
    InternalCall("scalar_recode", << 0, scalar_recode_limbs(s), << >> >>, << s >>)
\* uint_recode_wNAF(sd, 130, u, 4)
UintRecodeWNAF(u) ==
    InternalCall("uint_recode_wNAF", << 0, uint_recode_wNAF_limbs(130, u, 4), << >> >>,
                 << u >>)
\* scalar_recode_wNAF(sd, &s)
ScalarRecodeWNAF(s) ==
    InternalCall("scalar_recode_wNAF", << 0, scalar_recode_wNAF_limbs(s), << >> >>,
                 << s >>)

\* The digit strings given to the four windows of point_mulgen: 51 digits,
\* all zero but the digit d at position i and one of the digits of
\* OtherDigits (a position and a digit), which the first replaces when the
\* positions are the same.
OtherDigits == { << 0, 0 >>, << 38, 7 >> }
DigitString(i, d, o) ==
    [ j \in 1 .. 51 |-> IF j = i + 1 THEN d ELSE IF j = o[1] + 1 THEN o[2] ELSE 0 ]
DigitStrings ==
    { DigitString(i, d, o) : i \in 0 .. 50, d \in (-15) .. 16, o \in OtherDigits }

\* point_mulgen(&p, &s), and the encoding of p
PointMulgen(s) ==
    InternalCall("point_mulgen", << 0, point_encode(point_mulgen(s)), << >> >>, << s >>)
\* point_mulgen from the recoded digits on, and the encoding of p
PointMulgenDigits(sd) ==
    InternalCall("point_mulgen_digits",
                 << 0, point_encode(point_mulgen_digits(sd)), << >> >>, << sd >>)

\* Bound of the hashed input: the number of bytes in all.
MaxInput == 13

\* The input is a stretch of one of two strings of non-zero bytes, or of
\* the string of zero bytes: byte n of string k.
StreamByte(k, n) == IF k = 0 THEN 0 ELSE ((k * n) % 15) + 1
Stream(k, from, len) == [ i \in 1 .. len |-> StreamByte(k, from + i) ]

\* What the memory of the context holds before blake2s_init.
StaleBuffers == { [ i \in 1 .. BLOCK_LEN |-> v ] : v \in { 0, 15 } }

\* blake2s_init(&bc, out_len): the context is in call.out, and call.args is
\* << string, bytes given so far, length of the last update >>
Blake2sInit(k, buf) ==
    InternalCall("blake2s_init", << 0, blake2s_init_ctx(buf), << >> >>, << k, 0, 0 >>)

\* blake2s_update(&bc, data, len), data being the next len bytes of the
\* string
Blake2sUpdate(len) ==
    /\ call.op \in { "blake2s_init", "blake2s_update" }
    /\ call.args[2] + len <= MaxInput
    /\ call' = Returned("blake2s_update",
                        << 0, blake2s_update_ctx(call.out,
                                  Stream(call.args[1], call.args[2], len), len),
                           << >> >>,
                        << call.args[1], call.args[2] + len, len >>, call.out)
    /\ UNCHANGED << jk, pk, sig, shared, origin >>

\* blake2s_final(&bc, dst)
Blake2sFinal ==
    /\ call.op \in { "blake2s_init", "blake2s_update" }
    /\ call' = Returned("blake2s_final", << 0, blake2s_final_ctx(call.out), << >> >>,
                        << call.args[1], call.args[2], 0 >>, call.out)
    /\ UNCHANGED << jk, pk, sig, shared, origin >>

\* jq_sign_seeded(sig, &jk[i], hash_name, hv, Len(hv), seed, Len(seed))
SignSeeded(i, hash_name, hv, seed) ==
    /\ call.op = "idle"
    /\ call' = Returned("jq_sign_seeded",
                        jq_sign_seeded(jk[i], hash_name, hv, seed, Len(seed)),
                        << i, hash_name, hv, seed >>, sig)
    /\ sig' = [buf |-> call'.out, written |-> TRUE, op |-> "jq_sign_seeded",
               sec |-> jk[i].private_key, pub |-> jk[i].public_key,
               hash_name |-> hash_name, hv |-> hv, seed |-> seed]
    /\ UNCHANGED << jk, pk, shared, origin >>

\* jq_sign(sig, &jk[i], hash_name, hv, Len(hv))
Sign(i, hash_name, hv) ==
    /\ call.op = "idle"
    /\ call' = Returned("jq_sign", jq_sign(jk[i], hash_name, hv),
                        << i, hash_name, hv >>, sig)
    /\ sig' = [buf |-> call'.out, written |-> TRUE, op |-> "jq_sign",
               sec |-> jk[i].private_key, pub |-> jk[i].public_key,
               hash_name |-> hash_name, hv |-> hv, seed |-> << >>]
    /\ UNCHANGED << jk, pk, shared, origin >>

\* jq_verify(buf, sig_len, &key, hash_name, hv, Len(hv))
Verify(buf, sig_len, w, hash_name, hv) ==
    /\ call.op = "idle"
    /\ call' = Returned("jq_verify",
                        jq_verify(buf, sig_len, PublicKeyAt(w), hash_name, hv),
                        << buf, sig_len, w, hash_name, hv >>, << >>)
    /\ UNCHANGED << jk, pk, sig, shared, origin >>

\* jq_ECDH(shared, &jk[i], &key)
ECDH(i, w) ==
    /\ call.op = "idle"
    /\ call' = Returned("jq_ECDH", jq_ECDH(jk[i], PublicKeyAt(w)),
                        << i, w >>, shared)
    /\ shared' = [buf |-> call'.out, written |-> TRUE, ret |-> call'.ret,
                  hashed |-> call'.hashed, self |-> jk[i],
                  peer |-> PublicKeyAt(w)]
    /\ UNCHANGED << jk, pk, sig, origin >>

\* what a verifier is handed: the signature as written; the signature with
\* its scalar replaced by the same value plus r, or with one challenge bit
\* flipped; the signature cut short by one byte
VerifierInputs ==
    LET s == DecLE(SubSeq(sig.buf, CHAL_LEN + 1, SIG_LEN))
        c == sig.buf[1]
    IN  { << sig.buf, SIG_LEN >>,
          << SubSeq(sig.buf, 1, CHAL_LEN) \o EncLE(s + R, KEY_LEN), SIG_LEN >>,
          << << (c + 8) % 16 >> \o SubSeq(sig.buf, CHAL_LEN + 1, SIG_LEN), SIG_LEN >>,
          << sig.buf, SIG_LEN - 1 >> }

\* Signing and verifying with the key pair of slot 1.
NextSig ==
    \/ Return
    \/ \E seed \in KeySeeds : GenerateKeypair(1, seed)
    \/ \E hn \in HashNames, hv \in Messages : Sign(1, hn, hv)
    \/ \E hn \in HashNames, hv \in Messages, seed \in SignSeeds :
          SignSeeded(1, hn, hv, seed)
    \/ \E << buf, len >> \in VerifierInputs, hv \in Messages :
          Verify(buf, len, 1, sig.hash_name, hv)

Spec == Init /\ [][NextSig]_vars

\* Private keys: every encoding and some wrong lengths decoded, keys
\* generated from every short seed, the stored key encoded.
NextPriv ==
    \/ Return
    \/ \E seed \in ByteStrings(MaxSeedLen) : GeneratePrivateKey(1, seed)
    \/ \E src \in Encodings : DecodePrivateKey(1, src, KEY_LEN)
    \/ \E len \in { 0, KEY_LEN - 1, KEY_LEN + 1 } :
          DecodePrivateKey(1, [i \in 1 .. len |-> 1], len)
    \/ EncodePrivateKey(1)

SpecPriv == Init /\ [][NextPriv]_vars

\* Public keys: every encoding and some wrong lengths decoded into pk, the
\* stored key encoded.
NextPub ==
    \/ Return
    \/ \E src \in Encodings : DecodePublicKey(0, src, KEY_LEN)
    \/ \E len \in { 0, KEY_LEN - 1, KEY_LEN + 1 } :
          DecodePublicKey(0, [i \in 1 .. len |-> 1], len)
    \/ EncodePublicKey(0)

SpecPub == Init /\ [][NextPub]_vars

\* a valid value of u for which 8u^4 + 1 is not a square: u = 20
OffCurve == << 4, 1 >>

\* Key exchange between the key pairs of the two slots; the public key of
\* slot 2 may be overwritten by decoding bytes that are not on the curve.
NextKex ==
    \/ Return
    \/ \E i \in Slots, seed \in KeySeeds : GenerateKeypair(i, seed)
    \/ DecodePublicKey(2, OffCurve, KEY_LEN)
    \/ ECDH(1, 2)
    \/ ECDH(2, 1)

SpecKex == Init /\ [][NextKex]_vars

\* The all-zero encoding decoded into pk or into the public key of slot 1,
\* and then used to sign, to verify and as the peer of a key exchange.
NextId ==
    \/ Return
    \/ \E seed \in KeySeeds : GenerateKeypair(1, seed)
    \/ \E w \in { 0, 1 } : DecodePublicKey(w, ZeroBytes(KEY_LEN), KEY_LEN)
    \/ Sign(1, NULL_NAME, << >>)
    \/ \E w \in { 0, 1 } : Verify(sig.buf, SIG_LEN, w, NULL_NAME, << >>)
    \/ ECDH(1, 0)

SpecId == Init /\ [][NextId]_vars

\* the private halves a key pair is decoded from: 0, 1, r - 1 and r
PrivateHalves == { EncLE(v, KEY_LEN) : v \in { 0, 1, R - 1, R } }

\* Key pairs: each of these private halves with every public half decoded
\* into slot 1, some wrong lengths, the stored key pair encoded.
NextKp ==
    \/ Return
    \/ \E sk \in PrivateHalves, pub \in Encodings :
          DecodeKeypair(1, sk \o pub, 2 * KEY_LEN)
    \/ \E len \in { 0, KEY_LEN, 2 * KEY_LEN - 1, 2 * KEY_LEN + 1 } :
          DecodeKeypair(1, [i \in 1 .. len |-> 1], len)
    \/ EncodeKeypair(1)

SpecKp == Init /\ [][NextKp]_vars

\* the encodings of the integers 0 .. r
ScalarEncodings == { EncLE(v, KEY_LEN) : v \in 0 .. R }

\* Public keys made from decoded private keys: the encoding of every
\* integer up to r decoded into slot 1, the public key made from the stored
\* private key, the public key encoded.
NextMk ==
    \/ Return
    \/ \E src \in ScalarEncodings : DecodePrivateKey(1, src, KEY_LEN)
    \/ MakePublic(1)
    \/ EncodePublicKey(1)

SpecMk == Init /\ [][NextMk]_vars

\* The field functions of the 64-bit implementation, each applied to the
\* limb-level inputs.
NextField ==
    \/ Return
    \/ \E a \in FieldInputs : GfNeg(a)
    \/ \E a \in FieldInputs, b \in FieldInputs : GfAdd(a, b)
    \/ \E a \in FieldInputs, b \in FieldInputs : GfSub(a, b)
    \/ \E a \in FieldInputs : GfMul2(a)
    \/ \E a \in FieldInputs, n \in 1 .. LSH_MAX - 1 : GfLsh(a, n)
    \/ \E a \in FieldInputs : GfHalf(a)
    \/ \E a \in FieldInputs, b \in FieldInputs : GfMul(a, b)
    \/ \E a \in FieldInputs : GfSquare(a)
    \/ \E a \in FieldInputs : GfDecode(LimbBytes(a))
    \/ \E a \in FieldInputs : GfEncode(a)

SpecField == Init /\ [][NextField]_vars

\* Square roots in GF(q): gf_sqrt applied to every value of the full range
\* of an element.
NextSqrt ==
    \/ Return
    \/ \E a \in 0 .. 2 * 128 - 1 : GfSqrt(a)

SpecSqrt == Init /\ [][NextSqrt]_vars

\* The recoding functions applied to the sample integers and scalars.
NextRecode ==
    \/ Return
    \/ \E s \in ScalarInputs : ScalarRecode(s)
    \/ \E u \in Uint128Inputs : UintRecodeWNAF(u)
    \/ \E s \in ScalarInputs : ScalarRecodeWNAF(s)

SpecRecode == Init /\ [][NextRecode]_vars

\* Fixed-base multiplication of every scalar and of the digit strings.
NextMulgen ==
    \/ Return
    \/ \E s \in 0 .. R - 1 : PointMulgen(s)
    \/ \E sd \in DigitStrings : PointMulgenDigits(sd)

SpecMulgen == Init /\ [][NextMulgen]_vars

\* A hash computation: init, updates that cut the input in every way, final.
NextHash ==
    \/ Return
    \/ \E k \in 0 .. 2, buf \in StaleBuffers : Blake2sInit(k, buf)
    \/ \E len \in 0 .. MaxInput : Blake2sUpdate(len)
    \/ Blake2sFinal

SpecHash == Init /\ [][NextHash]_vars

\* scalar_decode_reduce applied to byte strings of every length.
NextReduce ==
    \/ Return
    \/ \E src \in ReduceInputs : ScalarDecodeReduce(src)

SpecReduce == Init /\ [][NextReduce]_vars

\* The sweep of point_mul128_add_mulgen_vartime, one turn of its loop at a
\* time, on P1 = 7*G.
NextVartime ==
    \/ Return
    \/ \E um \in UMarks, vm \in VMarks, alias \in BOOLEAN :
           VartimeBegin(7, alias, DigitsAt(130, um), DigitsAt(256, vm))
    \/ VartimeLoop
    \/ VartimeEnd

SpecVartime == Init /\ [][NextVartime]_vars

\* The two lookups, for every digit and some windows.
NextLookup ==
    \/ Return
    \/ \E k1 \in { 1, 2, 7, R - 1 }, k \in (-16) .. 16 : PointLookup(k1, k)
    \/ \E win \in { point_win_base, point_win_base65, point_win_base130,
                    point_win_base195 }, k \in (-16) .. 16 :
           PointAffineLookup(win, k)

SpecLookup == Init /\ [][NextLookup]_vars

\* Repeated doublings of the points of the jq255s curve, one turn of the
\* loop at a time.
NextXdouble ==
    \/ Return
    \/ \E p \in PointsS, n \in 0 .. MaxDoublings : XdoubleBegin(p, n)
    \/ XdoubleLoop
    \/ XdoubleEnd

SpecXdouble == Init /\ [][NextXdouble]_vars

\* The two hash functions of a signature applied to the names and values;
\* then signatures made under some of the names, and verified under the
\* name of the signature, under NULL and under the empty string.
NextDomain ==
    \/ Return
    \/ \E seed \in KeySeeds : GenerateKeypair(1, seed)
    \/ \E hn \in DomainNames, hv \in DomainMessages :
           ~ sig.written /\ MakeChallenge(2, 3, hn, hv)
    \/ \E hn \in DomainNames, hv \in DomainMessages, seed \in SignSeeds :
           ~ sig.written /\ MakeSignK(5, hn, hv, seed)
    \/ \E hn \in { NULL_NAME, << 0 >>, << 7, 0, 7 >> }, hv \in Messages : Sign(1, hn, hv)
    \/ \E hn \in { sig.hash_name, NULL_NAME, << 0 >> } :
           Verify(sig.buf, SIG_LEN, 1, hn, sig.hv)

SpecDomain == Init /\ [][NextDomain]_vars

\* The two recoding functions as their callers call them, one turn of
\* their loops at a time.
NextReads ==
    \/ Return
    \/ \E << sd_len, s >> \in RecodeCalls, after \in WordsAfter :
           UintRecodeBegin(sd_len, s, after)
    \/ UintRecodeLoop
    \/ UintRecodeEnd
    \/ \E << sd_len, u >> \in WnafCalls, after \in WordsAfter :
           UintRecodeWNAFBegin(sd_len, u, after)
    \/ UintRecodeWNAFLoop
    \/ UintRecodeWNAFEnd

SpecReads == Init /\ [][NextReads]_vars

(***************************************************************************)
(* SECTION 8: SIGNATURES                                                   *)
(***************************************************************************)
\* a key pair as jq_generate_keypair and jq_make_public leave it
ValidKeypair(sec, pub) ==
    sec \in 1 .. R - 1 /\ pub = jq_make_public(sec)[2]

\* the call that has just returned is jq_verify, on the signature buffer as
\* the last signing call wrote it, with that call's public key, hash_name
\* and hv
VerifiesWhatWasSigned ==
    /\ call.op = "jq_verify"
    /\ sig.written
    /\ call.args[1] = sig.buf
    /\ call.args[2] = SIG_LEN
    /\ PublicKeyAt(call.args[3]) = sig.pub
    /\ call.args[4] = sig.hash_name
    /\ call.args[5] = sig.hv

\* C1: for every valid key pair (the private scalar in 1 .. r-1, the public
\* key made from it by jq_make_public), every hash_name (NULL, empty or a
\* name), every hv and every seed (the empty one included), jq_verify on
\* the bytes jq_sign_seeded or jq_sign wrote, with the same public key,
\* hash_name and hv, returns 1.
C1_SignVerifyRoundTrip ==
    (VerifiesWhatWasSigned /\ ValidKeypair(sig.sec, sig.pub)) => call.ret = 1

C1_Witness ==
    /\ VerifiesWhatWasSigned
    /\ ValidKeypair(sig.sec, sig.pub)
    /\ sig.op = "jq_sign_seeded"
    /\ sig.seed # << >>
    /\ sig.hv # << >>
    /\ sig.hash_name = << 7, 0 >>
    /\ call.ret = 1

\* the three conditions under which jq_verify rejects before hashing: a
\* length other than SIG_LEN, an invalid public key (U = 0), a scalar part
\* that encodes an integer not below r
VerifyMustReject(buf, sig_len, key) ==
    \/ sig_len # SIG_LEN
    \/ key.p[3] % Q = 0
    \/ DecLE(SubSeq(buf, CHAL_LEN + 1, SIG_LEN)) >= R

\* C2: jq_verify returns 0, and hashes nothing (no challenge is computed),
\* when sig_len is not 48, when the public key is the invalid one, or when
\* the last 32 bytes of the signature encode an integer not below r; it
\* returns 1 only when none of these holds, and returns nothing but 0 or 1.
C2_VerifyRejects ==
    call.op = "jq_verify" =>
        /\ call.ret \in { 0, 1 }
        /\ VerifyMustReject(call.args[1], call.args[2], PublicKeyAt(call.args[3]))
              => (call.ret = 0 /\ call.hashed = << >>)

\* a signature of a valid key whose scalar was replaced by the same value
\* plus r is rejected, nothing hashed
C2_Witness ==
    /\ call.op = "jq_verify"
    /\ sig.written
    /\ ValidKeypair(sig.sec, sig.pub)
    /\ PublicKeyAt(call.args[3]) = sig.pub
    /\ call.args[2] = SIG_LEN
    /\ call.args[4] = sig.hash_name
    /\ call.args[5] = sig.hv
    /\ SubSeq(call.args[1], 1, CHAL_LEN) = SubSeq(sig.buf, 1, CHAL_LEN)
    /\ DecLE(SubSeq(call.args[1], CHAL_LEN + 1, SIG_LEN))
          = DecLE(SubSeq(sig.buf, CHAL_LEN + 1, SIG_LEN)) + R
    /\ call.ret = 0
    /\ call.hashed = << >>

\* the signing call that has just returned was given what the signing call
\* before it was given: the same private scalar, the same stored public-key
\* bytes, the same hash_name, hv and seed
SignedSameTwice ==
    /\ call.op \in { "jq_sign", "jq_sign_seeded" }
    /\ call.before.written
    /\ call.before.sec = sig.sec
    /\ call.before.pub.epub = sig.pub.epub
    /\ call.before.hash_name = sig.hash_name
    /\ call.before.hv = sig.hv
    /\ call.before.seed = sig.seed

LexLess(a, b) ==
    \E i \in 1 .. Len(a) :
        a[i] < b[i] /\ \A j \in 1 .. i - 1 : a[j] = b[j]

\* the key exchange that has just returned and the one before it were made
\* by two key pairs, each with the public key of the other
ExchangedBothWays ==
    /\ call.op = "jq_ECDH"
    /\ call.before.written
    /\ shared.peer = call.before.self.public_key
    /\ call.before.peer = shared.self.public_key

\* C4: ECDH symmetry. For two valid key pairs A and B (each public key made
\* from its private key), jq_ECDH(A, B.public) and jq_ECDH(B, A.public)
\* both return 1 and write the same 32 bytes.
C4_EcdhSymmetric ==
    ( /\ ExchangedBothWays
      /\ ValidKeypair(shared.self.private_key, shared.self.public_key)
      /\ ValidKeypair(call.before.self.private_key, call.before.self.public_key) )
    => /\ call.ret = 1
       /\ call.before.ret = 1
       /\ shared.buf = call.before.buf

\* two different key pairs, the caller's encoding the higher one
C4_Witness ==
    /\ ExchangedBothWays
    /\ ValidKeypair(shared.self.private_key, shared.self.public_key)
    /\ ValidKeypair(call.before.self.private_key, call.before.self.public_key)
    /\ shared.self.private_key # call.before.self.private_key
    /\ LexLess(shared.peer.epub, shared.self.public_key.epub)
    /\ call.ret = 1
    /\ shared.buf = call.before.buf

\* C5: jq_ECDH returns 1 when the peer public key is valid and 0 when it is
\* in the invalid-key state (the neutral point, U = 0), and nothing else;
\* the value is bad + 1 on 32 bits, bad being 0 or 0xFFFFFFFF. In both
\* cases 32 bytes are written to shared_key.
C5_EcdhReturn ==
    call.op = "jq_ECDH" =>
        /\ call.ret = (IF shared.peer.p[3] % Q = 0 THEN 0 ELSE 1)
        /\ call.ret = (IF shared.peer.p[3] % Q = 0 THEN 0 - 1 ELSE 0) + 1
        /\ Len(shared.buf) = KEY_LEN
        /\ shared.buf = call.out

\* the two outcomes, one after the other, of a valid key pair
C5_Witness ==
    /\ call.op = "jq_ECDH"
    /\ call.before.written
    /\ shared.self.private_key \in 1 .. R - 1
    /\ call.ret = 0
    /\ call.before.ret = 1
    /\ Len(shared.buf) = KEY_LEN
    /\ shared.buf # ZeroBytes(KEY_LEN)

\* the byte string jq_ECDH is to hash: the two encodings, the lower one in
\* lexicographic order first, then 0x53 and the encoding of sec * Q_peer,
\* or 0x46 and the encoding of sec. Q_peer being d * G for the private key
\* d of the peer, sec * Q_peer is ((sec * d) mod r) * G.
EcdhInput(sec, epub_self, epub_peer, valid, d) ==
    (IF LexLess(epub_self, epub_peer)
     THEN epub_self \o epub_peer ELSE epub_peer \o epub_self)
    \o (IF valid
        THEN << 83 >> \o point_encode(point_mulgen((sec * d) % R))
        ELSE << 70 >> \o EncLE(sec, KEY_LEN))

\* the peer of the exchange that has just returned is the other slot's key
PeerSlot == 3 - call.args[1]

\* C6: what the ECDH key derivation hashes. With a valid peer key the
\* output is hash(low_enc || high_enc || 0x53 || encode(sec * Q_peer)); with
\* an invalid one it is hash(low_enc || high_enc || 0x46 || encode(sec)),
\* sec being the caller's private scalar: a function of the caller's
\* private key, the caller's stored public-key bytes and the peer's stored
\* bytes. The byte hashed at offset 64 is 0x53 on success and 0x46 on
\* failure, so the string hashed on a failure never equals the one hashed
\* on a success.
C6_EcdhDerivation ==
    call.op = "jq_ECDH" =>
        LET valid == shared.peer.p[3] % Q # 0
            d == jk[PeerSlot].private_key
        IN  /\ (valid => ValidKeypair(d, shared.peer))
            /\ call.hashed = << EcdhInput(shared.self.private_key,
                                          shared.self.public_key.epub,
                                          shared.peer.epub, valid, d) >>
            /\ call.out = blake2s_final(call.hashed[1])
            /\ call.hashed[1][2 * KEY_LEN + 1] = (IF call.ret = 1 THEN 83 ELSE 70)
            /\ (call.before.written /\ call.before.ret # call.ret)
                  => call.before.hashed # call.hashed

\* a valid key pair and a peer key decoded from bytes that are not on the
\* curve: the bytes are hashed as they were stored
C6_Witness ==
    /\ call.op = "jq_ECDH"
    /\ shared.peer.epub = OffCurve
    /\ ValidKeypair(shared.self.private_key, shared.self.public_key)
    /\ LexLess(OffCurve, shared.self.public_key.epub)
    /\ call.hashed = << OffCurve \o shared.self.public_key.epub \o << 70 >>
                        \o EncLE(shared.self.private_key, KEY_LEN) >>
    /\ call.before.written
    /\ call.before.ret = 1

(***************************************************************************)
(* SECTION 10: KEYS                                                        *)
(***************************************************************************)
\* C7: jq_decode_private_key returns 1 exactly when len is 32 and the bytes
\* encode an integer in 1 .. r-1; otherwise it returns 0 and stores the
\* zero scalar, so that jq_encode_private_key then writes 32 zero bytes. A
\* generated private key is never zero (a zero is replaced by 1) and is
\* below r.
C7_PrivateKeyDecode ==
    /\ call.op = "jq_decode_private_key" =>
          LET src == call.args[2]
              len == call.args[3]
          IN  /\ call.ret \in { 0, 1 }
              /\ call.ret = 1 <=> (len = KEY_LEN /\ DecLE(src) \in 1 .. R - 1)
              /\ call.ret = 1 => jk[call.args[1]].private_key = DecLE(src)
              /\ call.ret = 0 => jk[call.args[1]].private_key = 0
    /\ ( /\ call.op = "jq_encode_private_key"
         /\ origin.private[call.args[1]].op = "jq_decode_private_key"
         /\ origin.private[call.args[1]].ret = 0 )
       => (call.ret = KEY_LEN /\ call.out = ZeroBytes(KEY_LEN))
    /\ call.op = "jq_generate_private_key" =>
          /\ jk[call.args[1]].private_key \in 1 .. R - 1
          /\ DecLE(blake2s_final(call.args[2])) % R = 0
                => jk[call.args[1]].private_key = 1

\* the encoding of r itself was decoded, and the key then encoded
C7_Witness ==
    /\ call.op = "jq_encode_private_key"
    /\ origin.private[1] = Origin("jq_decode_private_key", 0, EncLE(R, KEY_LEN), KEY_LEN)
    /\ call.out = ZeroBytes(KEY_LEN)

IsSquare(x) == \E e \in 0 .. Q - 1 : (e * e) % Q = x % Q

\* what a public-key encoding must satisfy: the length, u below q, 8u^4 + 1
\* a square (it is (a^2 - 4b)u^4 - 2au^2 + 1 with a = 0 and b = -2), u not 0
OnCurve(src, len) ==
    /\ len = KEY_LEN
    /\ DecLE(src) < Q
    /\ IsSquare(8 * DecLE(src) * DecLE(src) * DecLE(src) * DecLE(src) + 1)
    /\ DecLE(src) # 0

IdentityKey(w) ==
    origin.public[w] = Origin("jq_decode_public_key", 0, ZeroBytes(KEY_LEN), KEY_LEN)

C10_PublicKeyRoundTrip ==
    (call.op = "jq_encode_public_key"
        /\ origin.public[call.args[1]].op = "jq_decode_public_key")
    => /\ call.ret = KEY_LEN
       /\ origin.public[call.args[1]].ret = 1
             => call.out = origin.public[call.args[1]].src
       /\ origin.public[call.args[1]].ret = 0
             => call.out = ZeroBytes(KEY_LEN)

\* bytes that are not on the curve were decoded and stored, and are not
\* what the encoder writes
C10_Witness ==
    /\ call.op = "jq_encode_public_key"
    /\ origin.public[0] = Origin("jq_decode_public_key", 0, OffCurve, KEY_LEN)
    /\ pk.epub = OffCurve
    /\ call.out = ZeroBytes(KEY_LEN)

\* what jq_decode_keypair must be given to return 1
ValidKeypairBytes(src, len) ==
    /\ len = 2 * KEY_LEN
    /\ DecLE(SubSeq(src, 1, KEY_LEN)) \in 1 .. R - 1
    /\ OnCurve(SubSeq(src, KEY_LEN + 1, 2 * KEY_LEN), KEY_LEN)

\* C11: jq_decode_keypair is all-or-nothing. It returns 1 exactly when len
\* is 64, the first 32 bytes encode an integer in 1 .. r-1 and the last 32
\* bytes a non-neutral point; otherwise it returns 0 and both halves of the
\* key pair are invalid (the scalar is 0 and the point has U = 0), so that
\* jq_encode_keypair then writes 64 zero bytes.
C11_KeypairAllOrNothing ==
    /\ call.op = "jq_decode_keypair" =>
          LET valid == ValidKeypairBytes(call.args[2], call.args[3])
              k == jk[call.args[1]]
          IN  /\ call.ret = (IF valid THEN 1 ELSE 0)
              /\ valid => /\ k.private_key = DecLE(SubSeq(call.args[2], 1, KEY_LEN))
                          /\ k.public_key.p[3] =
                                DecLE(SubSeq(call.args[2], KEY_LEN + 1, 2 * KEY_LEN))
              /\ ~valid => /\ k.private_key = 0
                           /\ k.public_key.p[3] = 0
                           /\ point_is_neutral(k.public_key.p) = MASK_ONES
    /\ ( /\ call.op = "jq_encode_keypair"
         /\ origin.private[call.args[1]].op = "jq_decode_keypair"
         /\ origin.public[call.args[1]].op = "jq_decode_keypair" )
       => /\ call.ret = 2 * KEY_LEN
          /\ origin.private[call.args[1]].ret = 0
                => call.out = ZeroBytes(2 * KEY_LEN)
          /\ origin.private[call.args[1]].ret = 1
                => call.out = origin.private[call.args[1]].src

\* a valid private half was decoded together with a public half that is
\* not on the curve, and the key pair then encoded
C11_Witness ==
    /\ call.op = "jq_encode_keypair"
    /\ origin.private[1] = Origin("jq_decode_keypair", 0,
                                  EncLE(R - 1, KEY_LEN) \o OffCurve, 2 * KEY_LEN)
    /\ jk[1].private_key = 0
    /\ jk[1].public_key.epub = OffCurve
    /\ call.out = ZeroBytes(2 * KEY_LEN)

(***************************************************************************)
(* SECTION 11: THE BASE POINT                                              *)
(***************************************************************************)
\* the private key of slot i was decoded from the encoding of 1
PrivateKeyIsOne(i) ==
    origin.private[i] =
        Origin("jq_decode_private_key", 1, EncLE(1, KEY_LEN), KEY_LEN)

\* C12 as stated: multiplying the base point by the scalar decoded from
\* 01 00 ... 00 yields a point whose encoding is 03 00 ... 00 (u = 3).
C12_AsStated ==
    (call.op = "jq_make_public" /\ PrivateKeyIsOne(call.args[1]))
    => call.out.epub = EncLE(3, KEY_LEN)

\* C12: multiplying the base point by the scalar decoded from 01 00 ... 00
\* yields the first row of point_win_base, the point (e, u) = (3, 1). Its
\* e is odd, so point_encode writes the other representant's u, which is
\* -1 mod q: the encoding is that of q - 1, not of 3.
C12_BasePointEncoding ==
    (call.op = "jq_make_public" /\ PrivateKeyIsOne(call.args[1]))
    => /\ call.out.p = << point_win_base[1][1], gf_one,
                          point_win_base[1][2], point_win_base[1][3] >>
       /\ call.out.p[1] = 3
       /\ call.out.p[3] = 1
       /\ gf_is_negative(call.out.p[1]) = MASK_ONES
       /\ call.out.epub = EncLE(Q - 1, KEY_LEN)

\* the public key was made from the private key decoded from the encoding
\* of 1
C12_Witness ==
    /\ call.op = "jq_make_public"
    /\ PrivateKeyIsOne(1)
    /\ jk[1].private_key = 1
    /\ jk[1].public_key.epub = EncLE(Q - 1, KEY_LEN)

(***************************************************************************)
(* SECTION 12: FIELD ARITHMETIC ON LIMBS                                   *)
(***************************************************************************)
\* the integer that four limbs, or the bytes of an encoding, represent
FieldValue(a) == a[1] + LIMB * (a[2] + LIMB * (a[3] + LIMB * a[4]))
BytesValue(src) == FieldValue(<< dec64le(SubSeq(src, 1, 2)), dec64le(SubSeq(src, 3, 4)),
                                 dec64le(SubSeq(src, 5, 6)), dec64le(SubSeq(src, 7, 8)) >>)
IsElement(a) == a \in [1 .. 4 -> 0 .. LIMB - 1]

\* x * y mod q, the limbs of y taken one at a time, most significant first
MulModQ(x, y) ==
    LET step(acc, limb) == (((acc * LIMB) % QL) + (FieldValue(x) % QL) * limb) % QL
    IN  step(step(step(step(0, y[4]), y[3]), y[2]), y[1])

\* C13: for every input a of the full range, gf_neg writes an element
\* congruent to -a modulo q, whether 2q - a borrows or not.
C13_NegCongruent ==
    call.op = "gf_neg" =>
        /\ IsElement(call.out)
        /\ (FieldValue(call.out) + FieldValue(call.args[1])) % QL = 0

\* what gf_neg does write: -a modulo q when a is at most 2q; when a is
\* above 2q, so that 2q - a borrows, a value that is 2^64 too large
C13_NegAsComputed ==
    call.op = "gf_neg" =>
        /\ IsElement(call.out)
        /\ FieldValue(call.args[1]) <= 2 * QL =>
              (FieldValue(call.out) + FieldValue(call.args[1])) % QL = 0
        /\ FieldValue(call.args[1]) > 2 * QL =>
              (FieldValue(call.out) + FieldValue(call.args[1])) % QL = LIMB

\* gf_neg was given 2q + 1
C13_Witness ==
    /\ call.op = "gf_neg"
    /\ FieldValue(call.args[1]) = 2 * QL + 1
    /\ call.out = << LIMB - MQL - 1, 0, 0, LIMB \div 2 >>

\* C14: for all inputs a and b of the full range, gf_add, gf_sub, gf_mul2,
\* gf_half, gf_mul and gf_square write an element (four limbs, nothing
\* carried out of the top one) congruent modulo q to a + b, a - b, 2a, a/2,
\* a*b and a*a.
C14_FieldArithmetic ==
    /\ call.op \in { "gf_add", "gf_sub", "gf_mul2", "gf_half", "gf_mul", "gf_square" }
          => IsElement(call.out)
    /\ call.op = "gf_add" =>
          FieldValue(call.out) % QL
             = (FieldValue(call.args[1]) + FieldValue(call.args[2])) % QL
    /\ call.op = "gf_sub" =>
          FieldValue(call.out) % QL
             = (FieldValue(call.args[1]) - FieldValue(call.args[2])) % QL
    /\ call.op = "gf_mul2" =>
          FieldValue(call.out) % QL = (2 * FieldValue(call.args[1])) % QL
    /\ call.op = "gf_half" =>
          (2 * FieldValue(call.out)) % QL = FieldValue(call.args[1]) % QL
    /\ call.op = "gf_mul" =>
          FieldValue(call.out) % QL = MulModQ(call.args[1], call.args[2])
    /\ call.op = "gf_square" =>
          FieldValue(call.out) % QL = MulModQ(call.args[1], call.args[1])

\* both inputs are 2^256 - 1: the sum carries, and the sum with 2*MQ folded
\* in carries again
C14_Witness ==
    /\ call.op = "gf_add"
    /\ FieldValue(call.args[1]) = FULL - 1
    /\ FieldValue(call.args[2]) = FULL - 1
    /\ FieldValue(call.out) = 4 * MQL - 2

\* C15: gf_decode returns 0xFFFFFFFF and writes the decoded value exactly
\* when the little-endian integer is below q; for every integer from q on,
\* those with the top bit set included, it returns 0 and writes zero.
C15_GfDecode ==
    call.op = "gf_decode" =>
        /\ call.ret \in { 0, MASK_ONES }
        /\ call.ret = MASK_ONES <=> BytesValue(call.args[1]) < QL
        /\ call.ret = MASK_ONES => FieldValue(call.out) = BytesValue(call.args[1])
        /\ call.ret = 0 => call.out = << 0, 0, 0, 0 >>

\* the encoding of q itself was decoded
C15_Witness ==
    /\ call.op = "gf_decode"
    /\ BytesValue(call.args[1]) = QL
    /\ call.ret = 0
    /\ call.out = << 0, 0, 0, 0 >>

\* C16: the encoding is canonical. For every input of the full range
\* gf_encode writes the little-endian bytes of the integer of 0 .. q-1
\* congruent to it; gf_decode of these bytes succeeds and returns that
\* integer; and encoding what gf_decode accepted gives the bytes decoded.
C16_CanonicalEncoding ==
    /\ call.op = "gf_encode" =>
          /\ BytesValue(call.out) = FieldValue(call.args[1]) % QL
          /\ call.out \in [1 .. 8 -> 0 .. 7]
          /\ gf_decode_w64(call.out) = << MASK_ONES, Limbs(FieldValue(call.args[1]) % QL) >>
    /\ (call.op = "gf_decode" /\ call.ret = MASK_ONES) =>
          gf_encode_w64(call.out) = call.args[1]

\* an input of 2q or more was encoded
C16_Witness ==
    /\ call.op = "gf_encode"
    /\ FieldValue(call.args[1]) = 2 * QL + 1
    /\ BytesValue(call.out) = 1

(***************************************************************************)
(* SECTION 13: SQUARE ROOTS                                                *)
(***************************************************************************)
\* C17: if a is a square, zero included, gf_sqrt returns 0xFFFFFFFF and d
\* is a root of a whose fully reduced value has its least significant bit
\* 0; if a is not a square it returns 0 and d is zero. A success is never
\* returned with a d whose square differs from a.
C17_GfSqrt ==
    call.op = "gf_sqrt" =>
        /\ call.ret \in { 0, MASK_ONES }
        /\ call.ret = MASK_ONES <=> IsSquare(call.args[1])
        /\ call.ret = MASK_ONES =>
              /\ (call.out * call.out) % Q = call.args[1] % Q
              /\ (call.out % Q) % 2 = 0
        /\ call.ret = 0 => call.out = 0

\* a square whose roots are both non-zero: the even one is written
C17_Witness ==
    /\ call.op = "gf_sqrt"
    /\ call.args[1] = 4
    /\ call.ret = MASK_ONES
    /\ call.out = 2

(***************************************************************************)
(* SECTION 14: RECODING                                                    *)
(***************************************************************************)
\* bit k of the integer whose limbs are u
BitOf(u, k) ==
    IF k >= 32 * Len(u) THEN 0
    ELSE IF k % 32 = 31 THEN (IF u[(k \div 32) + 1] < 0 THEN 1 ELSE 0)
    ELSE (u[(k \div 32) + 1] \div (2 ^ (k % 32))) % 2

\* the w bits of u from bit k on, as an integer
RECURSIVE ChunkOf(_, _, _)
ChunkOf(u, k, w) == IF w = 0 THEN 0 ELSE BitOf(u, k) + 2 * ChunkOf(u, k + 1, w - 1)

\* Adding up the n digits of sd from digit i on, digit i weighing 2^(w*i),
\* with the carry t.c from the digits below: t.ok tells whether every chunk
\* of w bits so obtained is the chunk of u at its place, and t.c is the
\* carry into digit i + n.
RECURSIVE CarryOut(_, _, _, _, _, _)
CarryOut(sd, w, u, i, n, t) ==
    CASE Evaluated(t) ->
        IF ~t.ok \/ n = 0 THEN t
        ELSE IF n = 1
        THEN [ ok |-> (sd[i + 1] + t.c) % (2 ^ w) = ChunkOf(u, w * i, w),
               c |-> (sd[i + 1] + t.c - ((sd[i + 1] + t.c) % (2 ^ w))) \div (2 ^ w) ]
        ELSE CarryOut(sd, w, u, i + (n \div 2), n - (n \div 2),
                      CarryOut(sd, w, u, i, n \div 2, t))

\* The digits sd add up to the integer whose limbs are u: no carry is left
\* after the last digit and u has no bit above the digits.
DigitsAddUp(sd, w, u) ==
    /\ CarryOut(sd, w, u, 0, Len(sd), [ ok |-> TRUE, c |-> 0 ]) = [ ok |-> TRUE, c |-> 0 ]
    /\ \A k \in w * Len(sd) .. 32 * Len(u) - 1 : BitOf(u, k) = 0

\* a < b, for integers given by their limbs
RECURSIVE LimbsLess(_, _, _)
LimbsLess(a, b, n) ==
    IF n = 0 THEN FALSE
    ELSE IF a[n] = b[n] THEN LimbsLess(a, b, n - 1)
    ELSE IF (a[n] < 0) = (b[n] < 0) THEN a[n] < b[n]
    ELSE b[n] < 0

\* C18: for every scalar s with 0 <= s < r, the 51 digits of scalar_recode
\* add up to s with weights 2^(5i), every digit is in -15 .. +16, the top
\* digit is in 0 .. +16, and no carry is left after the last digit.
C18_ScalarRecode ==
    (call.op = "scalar_recode" /\ LimbsLess(call.args[1], R_limbs, 8)) =>
        /\ Len(call.out) = 51
        /\ \A i \in 1 .. 51 : call.out[i] \in (-15) .. 16
        /\ call.out[51] \in 0 .. 16
        /\ DigitsAddUp(call.out, 5, call.args[1])

\* r - 1 was recoded: the top chunk is 15 and a carry comes into it
C18_Witness ==
    /\ call.op = "scalar_recode"
    /\ call.args[1] = [R_limbs EXCEPT ![1] = R_limbs[1] - 1]
    /\ call.out[51] = 16
    /\ call.out[50] = 0

\* two non-zero digits are at least n positions apart: the n - 1 digits
\* after a non-zero digit are zero
Spaced(sd, n) ==
    \A i \in 1 .. Len(sd) :
        sd[i] # 0 => \A j \in i + 1 .. i + n - 1 : j <= Len(sd) => sd[j] = 0

\* C19: the wNAF recoding, with 130 digits of a 128-bit integer and with
\* 256 digits of a scalar below r: every digit is 0 or an odd integer in
\* -15 .. +15, two non-zero digits are at positions that differ by at least
\* 5, and the digits add up to the integer with weights 2^j.
C19_Wnaf ==
    ( \/ call.op = "uint_recode_wNAF"
      \/ call.op = "scalar_recode_wNAF" /\ LimbsLess(call.args[1], R_limbs, 8) )
    => /\ Len(call.out) = (IF call.op = "uint_recode_wNAF" THEN 130 ELSE 256)
       /\ \A j \in 1 .. Len(call.out) :
             call.out[j] = 0 \/ (call.out[j] % 2 = 1 /\ call.out[j] \in (-15) .. 15)
       /\ Spaced(call.out, 5)
       /\ DigitsAddUp(call.out, 1, call.args[1])

\* 2^128 - 1 was recoded: the digits are -1 at position 0 and 1 at
\* position 128
C19_Witness ==
    /\ call.op = "uint_recode_wNAF"
    /\ call.args[1] = << -1, -1, -1, -1 >>
    /\ call.out[1] = -1
    /\ call.out[129] = 1
    /\ \A j \in 2 .. 128 : call.out[j] = 0

RecodingByValue ==
    (call.op \in { "scalar_recode", "scalar_recode_wNAF" }
        /\ call.args[1][1] \in 0 .. R - 1
        /\ \A i \in 2 .. 8 : call.args[1][i] = 0)
    => call.out = (IF call.op = "scalar_recode"
                   THEN scalar_recode(call.args[1][1])
                   ELSE scalar_recode_wNAF(call.args[1][1]))

(***************************************************************************)
(* SECTION 15: FIXED-BASE MULTIPLICATION                                   *)
(***************************************************************************)
\* the base point G
BasePoint ==
    << point_win_base[1][1], gf_one, point_win_base[1][2], point_win_base[1][3] >>

\* the sum of sd[i] * 2^(5i) for lo <= i <= hi, modulo r
RECURSIVE DigitsModR(_, _, _)
DigitsModR(sd, lo, hi) ==
    IF lo > hi THEN 0
    ELSE IF lo = hi THEN sd[lo + 1] % R
    ELSE LET mid == (lo + hi) \div 2
             w == (2 ^ 5) % R
             RECURSIVE WPow(_)
             WPow(n) == IF n = 0 THEN 1 ELSE (w * WPow(n - 1)) % R
         IN  (DigitsModR(sd, lo, mid)
                 + WPow(mid + 1 - lo) * DigitsModR(sd, mid + 1, hi)) % R

\* C21: for every scalar s in 0 .. r - 1, point_mulgen(s) and
\* point_mul(G, s) have the same encoding; and for a string of 51 digits,
\* point_mulgen gives digit i the weight 2^(5i): the point computed from
\* the digits has the encoding of point_mul(G, k), k being the sum of
\* sd[i] * 2^(5i) modulo r.
C21_MulgenIsMul ==
    /\ call.op = "point_mulgen" =>
           call.out = point_encode(point_mul(BasePoint, call.args[1]))
    /\ call.op = "point_mulgen_digits" =>
           call.out = point_encode(point_mul(BasePoint, DigitsModR(call.args[1], 0, 50)))

\* the digits 16 at position 50 and 7 at position 38 were multiplied, and
\* the point is not the neutral
C21_Witness ==
    /\ call.op = "point_mulgen_digits"
    /\ call.args[1] = DigitString(50, 16, << 38, 7 >>)
    /\ call.out # ZeroBytes(KEY_LEN)

(***************************************************************************)
(* SECTION 16: BLAKE2S STREAMING                                           *)
(***************************************************************************)
\* the context after one update with the first n bytes of string k
OneUpdate(k, n) ==
    blake2s_update_ctx(blake2s_init_ctx([ i \in 1 .. BLOCK_LEN |-> 0 ]),
                       Stream(k, 0, n), n)

\* the bytes of buf that hold input
Buffered(bc) ==
    SubSeq(bc.buf, 1, IF bc.ctr = 0 THEN 0 ELSE ((bc.ctr - 1) % BLOCK_LEN) + 1)

\* C22: however the input is cut into updates, the calls to process_block
\* (block, byte counter, final flag), the counter and the buffered bytes
\* are those of one update with the whole input, before and after
\* blake2s_final; an update with len = 0 leaves the context as it is; after
\* blake2s_final exactly one block, the last, has the final flag; and
\* before it the last block of the input, full or not, is still in the
\* buffer: the blocks compressed hold fewer bytes than the input.
C22_SplitIndependent ==
    /\ call.op = "blake2s_update" =>
           /\ call.out.h = OneUpdate(call.args[1], call.args[2]).h
           /\ call.out.ctr = call.args[2]
           /\ Buffered(call.out) = Buffered(OneUpdate(call.args[1], call.args[2]))
           /\ call.args[3] = 0 => call.out = call.before
           /\ \A i \in 1 .. Len(call.out.h) : call.out.h[i][3] = 0
           /\ \/ call.args[2] = 0 /\ call.out.h = << >>
              \/ BLOCK_LEN * Len(call.out.h) < call.args[2]
    /\ call.op = "blake2s_final" =>
           /\ call.out.h = blake2s_final_ctx(OneUpdate(call.args[1], call.args[2])).h
           /\ \A i \in 1 .. Len(call.out.h) :
                  call.out.h[i][3] = (IF i = Len(call.out.h) THEN 1 ELSE 0)

\* an update of one byte found a full buffer, the second block of the
\* input, which had not been compressed, and compressed it without the
\* final flag
C22_Witness ==
    /\ call.op = "blake2s_update"
    /\ call.args = << 1, 2 * BLOCK_LEN + 1, 1 >>
    /\ call.before.ctr = 2 * BLOCK_LEN
    /\ Len(call.before.h) = 1
    /\ call.out.h[2] = << Stream(1, BLOCK_LEN, BLOCK_LEN), 2 * BLOCK_LEN, 0 >>

(***************************************************************************)
(* SECTION 17: SHIFTS                                                      *)
(***************************************************************************)
\* adding the folded top bits carries out of the four limbs
LshCarries(a, n) ==
    ((FieldValue(a) * (2 ^ n)) % FULL)
        + (a[4] \div (LIMB \div (2 ^ n))) * (2 * MQL) >= FULL

\* C23: for every input a of the full range and every n that gf_lsh
\* allows, the value written is congruent to a * 2^n modulo q, also when
\* adding the folded top bits carries and a second fold is applied.
C23_LshCongruent ==
    call.op = "gf_lsh" =>
        /\ IsElement(call.out)
        /\ FieldValue(call.out) % QL
               = (FieldValue(call.args[1]) * (2 ^ call.args[2])) % QL

\* what gf_lsh does write: a * 2^n modulo q when no second fold is needed,
\* and a value that is 1 too large when one is
C23_LshAsComputed ==
    call.op = "gf_lsh" =>
        /\ IsElement(call.out)
        /\ FieldValue(call.out) % QL
               = (FieldValue(call.args[1]) * (2 ^ call.args[2])
                     + (IF LshCarries(call.args[1], call.args[2]) THEN 1 ELSE 0)) % QL

\* gf_lsh was given 2^256 - 1 and n = 1: the shifted value and the fold
\* add up to 2^256 + 4*MQ - 2, and 4*MQ - 1 is written
C23_Witness ==
    /\ call.op = "gf_lsh"
    /\ FieldValue(call.args[1]) = FULL - 1
    /\ call.args[2] = 1
    /\ LshCarries(call.args[1], 1)
    /\ call.out = << 4 * MQL - 1, 0, 0, 0 >>

(***************************************************************************)
(* SECTION 18: DECODING WITH REDUCTION                                     *)
(***************************************************************************)
\* the little-endian integer of the bytes, modulo r
RECURSIVE BytesModR(_, _)
BytesModR(src, n) ==
    IF n = 0 THEN 0 ELSE (src[1] + 16 * BytesModR(Tail(src), n - 1)) % RC

\* C24: for every length and every byte string, scalar_decode_reduce
\* writes the integer of 0 .. r - 1 that is congruent modulo r to the
\* little-endian integer of the input.  Below the length of a scalar the
\* input is taken as it is; otherwise the top chunk has CHUNK_LEN + 1 +
\* ((len - 1) mod CHUNK_LEN) bytes (17 + ((len - 1) mod 16) in the code),
\* what is left is a whole number of chunks, and each is read once, from
\* the most significant down to offset 0.
C24_DecodeReduce ==
    call.op = "scalar_decode_reduce" =>
        LET len == Len(call.args[1])
        IN  /\ call.out.d \in 0 .. RC - 1
            /\ call.out.d = BytesModR(call.args[1], len)
            /\ len < 2 * CHUNK_LEN =>
                   /\ call.out.d = DecLE(call.args[1])
                   /\ call.out.at = << >>
            /\ len >= 2 * CHUNK_LEN =>
                   /\ call.out.clen = CHUNK_LEN + 1 + ((len - 1) % CHUNK_LEN)
                   /\ call.out.clen \in CHUNK_LEN + 1 .. 2 * CHUNK_LEN
                   /\ (len - call.out.clen) % CHUNK_LEN = 0
                   /\ Len(call.out.at) = (len - call.out.clen) \div CHUNK_LEN
                   /\ \A i \in 1 .. Len(call.out.at) :
                          call.out.at[i] = len - call.out.clen - i * CHUNK_LEN

\* seven bytes, all 15, were decoded: a top chunk of three bytes and two
\* chunks below it, and the scalar is reduced
C24_Witness ==
    /\ call.op = "scalar_decode_reduce"
    /\ call.args[1] = << 15, 15, 15, 15, 15, 15, 15 >>
    /\ call.out.clen = CHUNK_LEN + 1
    /\ call.out.at = << 2, 0 >>
    /\ call.out.d = (16 ^ 7 - 1) % RC

(***************************************************************************)
(* SECTION 19: THE SWEEP OF SIGNATURE VERIFICATION                         *)
(***************************************************************************)
\* 2^k modulo r
RECURSIVE Pow2ModR(_)
Pow2ModR(k) ==
    IF k = 0 THEN 1
    ELSE IF k % 2 = 1 THEN (2 * Pow2ModR(k - 1)) % R
    ELSE (Pow2ModR(k \div 2) * Pow2ModR(k \div 2)) % R

\* the sum of sd[j] * 2^(j - from) over the positions of the set, modulo r
RECURSIVE WeighDigits(_, _, _)
WeighDigits(sd, set, from) ==
    IF set = { } THEN 0
    ELSE LET j == CHOOSE j \in set : TRUE
         IN  ((sd[j + 1] % R) * Pow2ModR(j - from)
                 + WeighDigits(sd, set \ { j }, from)) % R

\* the positions from n up where one of the three digits is not zero
NonZeroFrom(sdu, sdv, n) ==
    { j \in n .. 129 :
        sdu[j + 1] # 0 \/ sdv[j + 1] # 0 \/ (j < 126 /\ sdv[j + 131] # 0) }

\* What the digits of the positions from n up amount to, as a multiple of
\* G, when the lowest of them weighs 2^(n - from): u digits times k1, v
\* digits as they are.
SweepScalar(k1, sdu, sdv, n, from) ==
    (k1 * WeighDigits(sdu, { j \in n .. 129 : sdu[j + 1] # 0 }, from)
        + WeighDigits(sdv, { j \in n .. 255 : sdv[j + 1] # 0 /\ (j % 130) >= n }, from)) % R

\* C25: in point_mul128_add_mulgen_vartime, when the turns of the loop for
\* the positions 129 down to n are done: zz is 1 exactly when no digit of
\* these positions is non-zero; otherwise ndbl is the number of positions
\* passed since the last position with a non-zero digit, and p2 is what
\* the digits from that position up amount to, each doubled once per
\* position below it.  When the function returns, p2 is u*P1 + v*G, the
\* neutral when all digits are zero, whether p2 and p1 are the same object
\* or not, and it is what the function computes in one piece.
C25_Vartime ==
    /\ call.op = "point_mul128_add_mulgen_vartime" =>
           LET n == call.out.i + 1
               nz == NonZeroFrom(call.args[3], call.args[4], n)
               low == CHOOSE j \in nz : \A k \in nz : j <= k
           IN  /\ call.out.st[2] = (IF nz = { } THEN 1 ELSE 0)
               /\ nz = { } => call.out.st[3] = 130 - n
               /\ nz # { } =>
                      /\ call.out.st[3] = low - n
                      /\ point_encode(call.out.st[1])
                             = point_encode(point_mulgen(
                                   SweepScalar(call.args[1], call.args[3],
                                               call.args[4], low, low)))
    /\ call.op = "point_mul128_add_mulgen_vartime returned" =>
           /\ point_encode(call.out.st[1])
                  = point_encode(point_mulgen(
                        SweepScalar(call.args[1], call.args[3], call.args[4], 0, 0)))
           /\ call.out.st[1] = VartimeDigits(call.before, call.args[3], call.args[4])
           /\ NonZeroFrom(call.args[3], call.args[4], 0) = { } =>
                  call.out.st[1] = point_neutral

\* the function returned with p2 and p1 the same object, after a sweep in
\* which the last non-zero digits were at position 60, so that 60
\* doublings were pending at the end, and the result is not the neutral
C25_Witness ==
    /\ call.op = "point_mul128_add_mulgen_vartime returned"
    /\ call.args[2]
    /\ call.args[3] = DigitsAt(130, { << 61, 7 >>, << 126, -3 >> })
    /\ call.args[4] = DigitsAt(256, { << 60, 3 >>, << 190, 5 >>, << 250, -1 >> })
    /\ call.out.p1 = call.out.st[1]
    /\ point_encode(call.out.st[1]) # ZeroBytes(KEY_LEN)

(***************************************************************************)
(* SECTION 20: WINDOW LOOKUPS                                              *)
(***************************************************************************)
\* C26: for every digit k in -16 .. +16, point_lookup and
\* point_affine_lookup write win[|k| - 1] with U negated when k < 0, and
\* the neutral when k = 0; the mask is all ones for the one index j with
\* j + 1 = |k| and zero for every other, so for none when k = 0; and all
\* 16 entries are read, in order, whatever k is.
C26_Lookup ==
    call.op \in { "point_lookup", "point_affine_lookup" } =>
        LET win == call.args[1]
            k == call.args[2]
            u == IF call.op = "point_lookup" THEN 3 ELSE 2
        IN  /\ k = 0 => call.out.p2 = (IF call.op = "point_lookup" THEN point_neutral
                                       ELSE point_affine_neutral)
            /\ k > 0 => call.out.p2 = win[k]
            /\ k < 0 => call.out.p2 = [ win[-k] EXCEPT ![u] = gf_neg(win[-k][u]) ]
            /\ \A j \in 0 .. 15 :
                   call.out.masks[j + 1]
                       = (IF j + 1 = k \/ j + 1 = -k THEN MASK_ONES ELSE 0)
            /\ call.out.read = [ j \in 1 .. 16 |-> j - 1 ]
            /\ call.out.p2 = (IF call.op = "point_lookup" THEN point_lookup(win, k)
                              ELSE point_affine_lookup(win, k))

\* the digit -16 was looked up in the window of 7*G: the last entry was
\* selected and its U, which is not zero, was negated
C26_Witness ==
    /\ call.op = "point_lookup"
    /\ call.args[2] = -16
    /\ call.args[1][1] = point_mulgen(7)
    /\ call.out.masks[16] = MASK_ONES
    /\ call.out.p2[3] # call.args[1][16][3]
    /\ call.out.p2[3] = gf_neg(call.args[1][16][3])


(***************************************************************************)
(* SECTION 21: REPEATED DOUBLINGS ON JQ255S                                *)
(***************************************************************************)

\* n doublings made with point_add
RECURSIVE AddDoubles(_, _)
AddDoubles(p, n) == IF n = 0 THEN p ELSE AddDoubles(point_add_s(p, p), n - 1)

\* the same group element: the same (e, u), or (e, u) and (-e, -u)
SamePointS(p, r) ==
    \/ /\ (p[1] * r[2]) % QS = (r[1] * p[2]) % QS
       /\ (p[3] * r[2]) % QS = (r[3] * p[2]) % QS
    \/ /\ (p[1] * r[2] + r[1] * p[2]) % QS = 0
       /\ (p[3] * r[2] + r[3] * p[2]) % QS = 0

\* t1, t2, t3 of one extra doubling, from X, W, J before it
ExtraTerms(xwj) ==
    LET t1 == (xwj[2] * xwj[3]) % QS
    IN  [ t1 |-> t1, t2 |-> (t1 * t1) % QS,
          t3 |-> ((xwj[2] + xwj[3]) * (xwj[2] + xwj[3]) - 2 * t1) % QS ]

XdoubleLooped == call.op = "point_xdouble" /\ call.before # << >>

RECURSIVE BigEndian(_)
BigEndian(buf) ==
    IF buf = << >> THEN 0
    ELSE Head(buf) * (16 ^ (Len(buf) - 1)) + BigEndian(Tail(buf))

\* the bytes hashed before the domain byte
EcdhHead(hashed) == SubSeq(hashed[1], 1, 2 * KEY_LEN)

\* C28: ECDH key ordering. The first 2 * KEY_LEN bytes fed to the
\* key-derivation hash are min(epub_self, epub_peer) followed by
\* max(epub_self, epub_peer) in the lexicographic order of the stored
\* encodings, byte 0 most significant; they are the same when the roles of
\* self and peer are exchanged, and the key twice when the encodings are
\* equal.
C28_EcdhKeyOrder ==
    call.op = "jq_ECDH" =>
        LET a == shared.self.public_key.epub
            b == shared.peer.epub
        IN  /\ EcdhHead(call.hashed) = (IF BigEndian(a) <= BigEndian(b)
                                        THEN a \o b ELSE b \o a)
            /\ (a = b => EcdhHead(call.hashed) = a \o a)
            /\ ExchangedBothWays
                  => EcdhHead(call.hashed) = EcdhHead(call.before.hashed)

\* both ways, between two keys whose first bytes and whose last bytes are
\* in opposite orders
C28_Witness ==
    /\ ExchangedBothWays
    /\ shared.self.public_key.epub[1] < shared.peer.epub[1]
    /\ shared.self.public_key.epub[KEY_LEN] > shared.peer.epub[KEY_LEN]
    /\ EcdhHead(call.hashed) = shared.self.public_key.epub \o shared.peer.epub
    /\ EcdhHead(call.before.hashed) = EcdhHead(call.hashed)

(***************************************************************************)
(* SECTION 23: DOMAIN SEPARATION OF THE SIGNATURE HASHES                   *)
(***************************************************************************)

\* the string a hash_name argument names: none for a NULL pointer
RECURSIVE NameOf(_)
NameOf(hash_name) ==
    IF hash_name = << >> THEN << >>
    ELSE IF Head(hash_name) = 0 THEN << >>
    ELSE << Head(hash_name) >> \o NameOf(Tail(hash_name))

\* what follows the two encodings: 0x52 and hv, or 0x48, the name, 0x00, hv
DomainSuffix(hash_name, hv) ==
    IF NameOf(hash_name) = << >> THEN << 82 >> \o hv
    ELSE << 72 >> \o NameOf(hash_name) \o << 0 >> \o hv

\* seed_len as 8 little-endian bytes
SeedLenBytes(n) == [ i \in 1 .. 8 |-> (n \div (16 ^ (i - 1))) % 16 ]

\* C29: domain separation of the signature hashes. The challenge hashes
\* R_enc || Q_enc || 0x52 || hv when hash_name is NULL or the empty string
\* (both treated identically), and R_enc || Q_enc || 0x48 || hash_name ||
\* 0x00 || hv otherwise; the scalar k hashes sec_enc || Q_enc || seed_len
\* as 8 little-endian bytes || seed and the same suffix. For fixed R and Q,
\* two pairs (hash_name, hv) that differ in the name (NULL and the empty
\* string being the same name) or in hv never give the same string; and
\* jq_verify hashes the string the signer hashed, built by the same rule.
C29_DomainSeparation ==
    /\ call.op = "make_challenge" =>
          /\ call.hashed[1] = point_encode(call.args[1]) \o call.args[2]
                              \o DomainSuffix(call.args[3], call.args[4])
          /\ \A hn \in DomainNames, hv \in DomainMessages :
                (make_challenge(call.args[1], call.args[2], hn, hv)[2] = call.hashed[1])
                <=> (NameOf(hn) = NameOf(call.args[3]) /\ hv = call.args[4])
    /\ call.op = "make_sign_k" =>
          call.hashed[1] = EncLE(call.args[1], KEY_LEN) \o call.args[2]
                           \o SeedLenBytes(Len(call.args[5])) \o call.args[5]
                           \o DomainSuffix(call.args[3], call.args[4])
    /\ (call.op = "jq_verify" /\ call.hashed # << >>) =>
          /\ SubSeq(call.hashed[1], KEY_LEN + 1, Len(call.hashed[1]))
             = PublicKeyAt(call.args[3]).epub
               \o DomainSuffix(call.args[4], call.args[5])
          /\ (ValidKeypair(sig.sec, sig.pub) /\ PublicKeyAt(call.args[3]) = sig.pub
              /\ call.args[1] = sig.buf
              /\ NameOf(call.args[4]) = NameOf(sig.hash_name))
             => call.hashed[1]
                = make_challenge(
                      point_mulgen(make_sign_k(sig.sec, sig.pub.epub, sig.hash_name,
                                               sig.hv, sig.seed, Len(sig.seed))),
                      sig.pub.epub, sig.hash_name, sig.hv)[2]

\* a challenge hashed under a name of one character for a value that begins
\* with that character and a zero
C29_Witness ==
    /\ call.op = "make_challenge"
    /\ call.args[3] = << 7, 0, 7 >>
    /\ call.args[4] = << 7, 0 >>
    /\ call.hashed[1] = point_encode(call.args[1]) \o call.args[2]
                        \o << 72, 7, 0, 7, 0 >>
    /\ make_challenge(call.args[1], call.args[2], << 7, 7, 0 >>, << 0 >>)[2]
       # call.hashed[1]

(***************************************************************************)
(* SECTION 24: THE LIMBS THAT THE RECODING FUNCTIONS READ                  *)
(***************************************************************************)

RecodeRunning == call.op \in { "uint_recode", "uint_recode returned" }
WnafRunning == call.op \in { "uint_recode_wNAF loop", "uint_recode_wNAF returned" }

\* C30: the digit recoders never read a limb outside their input.
\* uint_recode with sd_len digits reads only the limbs 0 ..
\* ceil(5*sd_len/32) - 1: the limbs 0 .. 7 of a scalar for 51 digits, the
\* limbs 0 .. 4 of the five of k0 and k1 for 26 digits. uint_recode_wNAF
\* with u_len limbs reads only u[0] .. u[u_len - 1]: u[0 .. 3] for the 130
\* digits of the challenge, u[0 .. 7] for the 256 digits of a scalar. The
\* digits do not depend on the word that follows the array.
C30_ReadsInBounds ==
    /\ RecodeRunning =>
          /\ call.out.reads \subseteq 0 .. ((5 * call.args[1] + 31) \div 32) - 1
          /\ call.out.reads \subseteq 0 .. call.args[3] - 1
          /\ call.args[1] = 51 => call.out.reads \subseteq 0 .. 7
          /\ call.args[1] = 26 => call.out.reads \subseteq 0 .. 4
    /\ WnafRunning =>
          /\ call.out.reads \subseteq 0 .. call.args[3] - 1
          /\ call.args[1] = 130 => call.out.reads \subseteq 0 .. 3
          /\ call.args[1] = 256 => call.out.reads \subseteq 0 .. 7
    /\ call.op = "uint_recode returned" =>
          call.out.st.sd = uint_recode_limbs(call.args[1],
                                             SubSeq(call.args[2], 1, call.args[3]))
    /\ call.op = "uint_recode_wNAF returned" =>
          call.out.st.sd = uint_recode_wNAF_limbs(call.args[1],
                                                  SubSeq(call.args[2], 1, call.args[3]),
                                                  call.args[3])

\* the 130 digits of a challenge whose top limb and the word after it are
\* all ones: the four limbs have been read, and the last digits are zero
C30_Witness ==
    /\ call.op = "uint_recode_wNAF returned"
    /\ call.args[1] = 130
    /\ call.args[2][4] = Word(65535, 65535)
    /\ call.args[2][5] = Word(65535, 65535)
    /\ call.out.reads = 0 .. 3
    /\ Len(call.out.st.sd) = 130
    /\ call.out.st.sd[130] = 0
=============================================================================
